---- MODULE Spec2Model ----
(***************************************************************************)
(* Lockbox: a local encrypted key-value secret store (AES-256-GCM values   *)
(* in a SQLite store with a config table and a secrets table), its         *)
(* command-line commands, its HTTP server and remote commands, and its     *)
(* crypto package.                                                         *)
(*                                                                         *)
(* Byte strings are sequences of integers 0..255.  The random source       *)
(* (crypto/rand) is an input: every draw is a nondeterministic choice.     *)
(* Storage-engine failures (I/O errors of SQLite) are outside the model.   *)
(***************************************************************************)
EXTENDS Integers, Sequences, FiniteSets, TLC

(***************************************************************************)
(* Program constants                                                       *)
(***************************************************************************)
KeySize == 32

NonceSize == 12

\* Length of the GCM authentication tag appended by Seal (cipher.NewGCM).
TagSize == 16

\* "encryption_key", the reserved config name.
EncryptionKeyName == <<101, 110, 99, 114, 121, 112, 116, 105, 111, 110, 95, 107, 101, 121>>

(***************************************************************************)
(* Bounds of the model                                                     *)
(***************************************************************************)
\* Longest plaintext given to set / Encrypt.
MaxPlainLen == 1

\* Most Encrypt calls recorded in the crypto specification.
MaxCalls == 2

\* Longest plaintext given to the export escaping on its own.
MaxEscLen == 3

\* Bytes plaintexts are made of: '$' and 'a'.
PlainBytes == {36, 97}

RECURSIVE SeqsUpTo(_, _)
SeqsUpTo(S, n) ==
    IF n = 0 THEN {<<>>}
    ELSE LET shorter == SeqsUpTo(S, n - 1)
         IN shorter \cup {Append(s, b) : s \in {t \in shorter : Len(t) = n - 1}, b \in S}

Plaintexts == SeqsUpTo(PlainBytes, MaxPlainLen)

\* Values given to the set command: "", "$", ...
Values == SeqsUpTo({36}, MaxPlainLen)

\* Secret names used by the commands: "a", "ab", "b".
SecretKeys == {<<97>>, <<97, 98>>, <<98>>}

\* Keys the random source can yield in GenerateKey (32 bytes each).
GenKeys == {[i \in 1..KeySize |-> (seed + i) % 256] : seed \in {17, 42}}

\* A 32-byte key that differs from the first generated key in bytes 2 and 18
\* only, offered to Decrypt.
NearKeys ==
    {[i \in 1..KeySize |-> IF i = 2 THEN (17 + i + 3) % 256
                           ELSE IF i = 18 THEN (17 + i + 255) % 256
                           ELSE (17 + i) % 256]}

\* The keys whose cipher is tabulated below.
TabledKeys == GenKeys \cup NearKeys

\* Byte strings of other lengths, offered to Encrypt/Decrypt as keys.
BadKeys == {[i \in 1..n |-> 17] : n \in {0, 16, 31, 33}}

\* Nonces the random source can yield in Encrypt (12 bytes each).
Nonces == {[i \in 1..NonceSize |-> (seed * i) % 256] : seed \in {5, 200}}

(***************************************************************************)
(* Bytes                                                                   *)
(***************************************************************************)
\* Bit of weight w (a power of two) of byte a.
BitAt(a, w) == (a \div w) % 2

\* a XOR b on bytes, bit by bit from the lowest.
RECURSIVE XorBits(_, _)
XorBits(a, b) ==
    IF a = 0 THEN b
    ELSE IF b = 0 THEN a
    ELSE ((a + b) % 2) + 2 * XorBits(a \div 2, b \div 2)

\* The same, tabulated once.
XorTable == [a \in 0..255 |-> [b \in 0..255 |-> XorBits(a, b)]]

Xor(a, b) == XorTable[a][b]

\* XOR of two byte strings of one length (subtle.XORBytes).  Here and below,
\* \o <<>> leaves a sequence as it is and holds it as a tuple.
XorBytes(u, v) == [i \in 1..Len(u) |-> XorTable[u[i]][v[i]]] \o <<>>

\* bytes.Compare / SQLite BINARY collation: memcmp, then the shorter first.
RECURSIVE BytesLess(_, _)
BytesLess(a, b) ==
    IF Len(b) = 0 THEN FALSE
    ELSE IF Len(a) = 0 THEN TRUE
    ELSE IF a[1] # b[1] THEN a[1] < b[1]
    ELSE BytesLess(Tail(a), Tail(b))

(***************************************************************************)
(* encoding/hex as used for the key                                        *)
(***************************************************************************)
HexDigits == <<48, 49, 50, 51, 52, 53, 54, 55, 56, 57, 97, 98, 99, 100, 101, 102>>

\* hex.EncodeToString: two lower-case hex digits per byte.
HexEncode(bytes) ==
    [i \in 1..(2 * Len(bytes)) |->
        LET b == bytes[(i + 1) \div 2]
        IN IF i % 2 = 1 THEN HexDigits[(b \div 16) + 1] ELSE HexDigits[(b % 16) + 1]]

\* Value of one hex digit, -1 when the character is no hex digit.
HexVal(c) ==
    IF c >= 48 /\ c <= 57 THEN c - 48
    ELSE IF c >= 97 /\ c <= 102 THEN c - 97 + 10
    ELSE IF c >= 65 /\ c <= 70 THEN c - 65 + 10
    ELSE -1

HexDecodePairs(s) ==
    [i \in 1..(Len(s) \div 2) |-> HexVal(s[2 * i - 1]) * 16 + HexVal(s[2 * i])]

\* hex.DecodeString: fails on an odd length or a character that is no hex digit.
HexDecode(s) ==
    IF Len(s) % 2 # 0 \/ \E i \in 1..Len(s) : HexVal(s[i]) < 0
    THEN [err |-> "InvalidHex", out |-> <<>>]
    ELSE [err |-> "", out |-> HexDecodePairs(s)]

(***************************************************************************)
(* crypto/aes: the AES-256 block cipher (FIPS 197)                         *)
(***************************************************************************)
BlockSize == 16

ZeroBlock == [i \in 1..BlockSize |-> 0] \o <<>>

\* The substitution box, indexed by byte + 1.
SBox ==
  <<
    99, 124, 119, 123, 242, 107, 111, 197, 48, 1, 103, 43, 254, 215, 171, 118,
    202, 130, 201, 125, 250, 89, 71, 240, 173, 212, 162, 175, 156, 164, 114, 192,
    183, 253, 147, 38, 54, 63, 247, 204, 52, 165, 229, 241, 113, 216, 49, 21,
    4, 199, 35, 195, 24, 150, 5, 154, 7, 18, 128, 226, 235, 39, 178, 117,
    9, 131, 44, 26, 27, 110, 90, 160, 82, 59, 214, 179, 41, 227, 47, 132,
    83, 209, 0, 237, 32, 252, 177, 91, 106, 203, 190, 57, 74, 76, 88, 207,
    208, 239, 170, 251, 67, 77, 51, 133, 69, 249, 2, 127, 80, 60, 159, 168,
    81, 163, 64, 143, 146, 157, 56, 245, 188, 182, 218, 33, 16, 255, 243, 210,
    205, 12, 19, 236, 95, 151, 68, 23, 196, 167, 126, 61, 100, 93, 25, 115,
    96, 129, 79, 220, 34, 42, 144, 136, 70, 238, 184, 20, 222, 94, 11, 219,
    224, 50, 58, 10, 73, 6, 36, 92, 194, 211, 172, 98, 145, 149, 228, 121,
    231, 200, 55, 109, 141, 213, 78, 169, 108, 86, 244, 234, 101, 122, 174, 8,
    186, 120, 37, 46, 28, 166, 180, 198, 232, 221, 116, 31, 75, 189, 139, 138,
    112, 62, 181, 102, 72, 3, 246, 14, 97, 53, 87, 185, 134, 193, 29, 158,
    225, 248, 152, 17, 105, 217, 142, 148, 155, 30, 135, 233, 206, 85, 40, 223,
    140, 161, 137, 13, 191, 230, 66, 104, 65, 153, 45, 15, 176, 84, 187, 22
  >>

SubBytes(s) == [i \in 1..Len(s) |-> SBox[s[i] + 1]] \o <<>>

\* Multiplication by x in GF(2^8) modulo x^8 + x^4 + x^3 + x + 1.
XTime(a) == IF a >= 128 THEN Xor((2 * a) % 256, 27) ELSE 2 * a

\* The state is held column by column: byte i is row (i-1) % 4 of column
\* (i-1) \div 4.  Row r is rotated left by r columns.
ShiftRows(s) == [i \in 1..BlockSize |-> s[((i - 1 + 4 * ((i - 1) % 4)) % BlockSize) + 1]] \o <<>>

\* Each column is multiplied by the matrix (2 3 1 1), rotated row by row.
MixColumns(s) ==
    [i \in 1..BlockSize |->
        LET c == 4 * ((i - 1) \div 4)
            r == (i - 1) % 4
            a0 == s[c + r + 1]
            a1 == s[c + ((r + 1) % 4) + 1]
            a2 == s[c + ((r + 2) % 4) + 1]
            a3 == s[c + ((r + 3) % 4) + 1]
        IN Xor(Xor(XTime(a0), Xor(XTime(a1), a1)), Xor(a2, a3))] \o <<>>

\* What the word before does to the word that follows i words: rotated,
\* substituted and given the round constant at a multiple of 8, substituted
\* four words later, itself otherwise.
ScheduleWord(prev, i, rcon) ==
    LET AddRcon(word) == <<Xor(word[1], rcon), word[2], word[3], word[4]>>
    IN IF i % 8 = 0 THEN AddRcon(SubBytes(<<prev[2], prev[3], prev[4], prev[1]>>))
       ELSE IF i % 8 = 4 THEN SubBytes(prev)
       ELSE prev

\* The key schedule of a 32-byte key: 60 words of four bytes, w[i] from
\* w[i-8] and w[i-1]; rcon is the round constant of the next multiple of 8.
RECURSIVE ExpandWords(_, _)
ExpandWords(w, rcon) ==
    IF Len(w) = 60 THEN w
    ELSE ExpandWords(Append(w, XorBytes(w[Len(w) - 7], ScheduleWord(w[Len(w)], Len(w), rcon))),
                     IF Len(w) % 8 = 0 THEN XTime(rcon) ELSE rcon)

\* aes.NewCipher(key): the fifteen round keys of sixteen bytes, four words
\* of the schedule each.
ExpandKey(key) ==
    LET KeyBlocks(w) ==
            [r \in 1..15 |-> w[4 * r - 3] \o w[4 * r - 2] \o w[4 * r - 1] \o w[4 * r]]
    IN KeyBlocks(ExpandWords([i \in 1..8 |-> SubSeq(key, 4 * i - 3, 4 * i)], 1))

\* Rounds 1 to 14 substitute, shift, mix and add the round key; the last
\* one does not mix.  st.r is the round to do next; round r adds the round
\* key r + 1.
RECURSIVE Rounds(_, _)
Rounds(rk, st) ==
    LET MixUnlessLast(s, r) == IF r = 14 THEN s ELSE MixColumns(s)
    IN IF st.r > 14 THEN st.s
       ELSE Rounds(rk, [s |-> XorBytes(MixUnlessLast(ShiftRows(SubBytes(st.s)), st.r),
                                       rk[st.r + 1]),
                        r |-> st.r + 1])

\* block.Encrypt(dst, src) under the round keys rk.
EncryptBlock(rk, block) == Rounds(rk, [s |-> XorBytes(block, rk[1]), r |-> 1])

(***************************************************************************)
(* crypto/cipher: GCM with a 12-byte nonce and a 16-byte tag (SP 800-38D)  *)
(***************************************************************************)
\* The counter block: the nonce and the big-endian 32-bit counter n.
CounterBlock(nonce, n) ==
    nonce \o <<(n \div 16777216) % 256, (n \div 65536) % 256, (n \div 256) % 256, n % 256>>

\* Multiplication by x in GF(2^128): one bit to the right, reduced by
\* x^128 + x^7 + x^2 + x + 1 (the leading byte takes 0xe1).
MulX(v) ==
    [j \in 1..BlockSize |->
        LET shifted == (v[j] \div 2) + (IF j > 1 /\ v[j - 1] % 2 = 1 THEN 128 ELSE 0)
        IN IF j = 1 /\ v[BlockSize] % 2 = 1 THEN Xor(shifted, 225) ELSE shifted] \o <<>>

\* Bit i (0 is the leftmost) of a block.
BlockBit(x, i) == BitAt(x[(i \div 8) + 1], 2 ^ (7 - (i % 8)))

\* One step of the multiplication: z takes v when bit i of x is set, and v
\* is multiplied by x.
GfStep(x, st) ==
    [v |-> MulX(st.v),
     z |-> IF BlockBit(x, st.i) = 1 THEN XorBytes(st.z, st.v) ELSE st.z,
     i |-> st.i + 1]

RECURSIVE GfLoop(_, _)
GfLoop(x, st) == IF st.i = 8 * BlockSize THEN st.z ELSE GfLoop(x, GfStep(x, st))

\* The product of two blocks in GF(2^128).
GfMul(x, y) == GfLoop(x, [v |-> y, z |-> ZeroBlock, i |-> 0])

\* The block 0^64 || [8 * n]_64 that closes GHASH over n ciphertext bytes
\* and no additional data.
LenBlock(n) ==
    <<0, 0, 0, 0, 0, 0, 0, 0, 0, 0, 0, 0,
      ((8 * n) \div 16777216) % 256, ((8 * n) \div 65536) % 256, ((8 * n) \div 256) % 256,
      (8 * n) % 256>>

\* Block k of data, padded with zero bytes.
PaddedBlock(data, k) ==
    [i \in 1..BlockSize |->
        IF BlockSize * (k - 1) + i <= Len(data) THEN data[BlockSize * (k - 1) + i] ELSE 0] \o <<>>

RECURSIVE GHashLoop(_, _, _)
GHashLoop(h, data, st) ==
    IF BlockSize * (st.k - 1) >= Len(data) THEN st.y
    ELSE GHashLoop(h, data, [y |-> GfMul(XorBytes(st.y, PaddedBlock(data, st.k)), h),
                             k |-> st.k + 1])

\* GHASH under the hash key h of the ciphertext ct (no additional data).
GHash(h, ct) ==
    GfMul(XorBytes(GHashLoop(h, ct, [y |-> ZeroBlock, k |-> 1]), LenBlock(Len(ct))), h)
(***************************************************************************)
(* The blocks of the keys and nonces the random source yields in the       *)
(* model, computed once: the round keys, the hash key H = E(0^128), the    *)
(* encryptions of the counter blocks 1 and 2, and the products of GHASH.   *)
(* Every other key, nonce or length takes the operators above.             *)
(***************************************************************************)
Schedules == [key \in TabledKeys |-> ExpandKey(key)]

RoundKeys(key) == IF key \in TabledKeys THEN Schedules[key] ELSE ExpandKey(key)

HashKeys == [key \in TabledKeys |-> EncryptBlock(Schedules[key], ZeroBlock)]

\* The hash key of GCM: the encryption of the zero block.
HashKey(key) ==
    IF key \in TabledKeys THEN HashKeys[key] ELSE EncryptBlock(ExpandKey(key), ZeroBlock)

CounterPads ==
    [key \in TabledKeys |-> [nonce \in Nonces |-> [n \in 1..2 |->
        EncryptBlock(Schedules[key], CounterBlock(nonce, n))]]]

\* The encryption of the counter block n of a nonce.
CounterPad(key, nonce, n) ==
    IF key \in TabledKeys /\ nonce \in Nonces /\ n <= 2 THEN CounterPads[key][nonce][n]
    ELSE EncryptBlock(RoundKeys(key), CounterBlock(nonce, n))

\* v, v.x, v.x^2, ...: the first n multiples of v by the powers of x.
RECURSIVE Powers(_, _)
Powers(ps, n) == IF Len(ps) = n THEN ps ELSE Powers(Append(ps, MulX(ps[Len(ps)])), n)

\* The longest ciphertext of the model: a value of set or of a served store.
ShortLen == MaxPlainLen + 1

\* GHASH of a ciphertext of at most one block is ct.H^2 + len.H, and ct.H^2
\* is the sum of the products of its bits: bit t of byte i takes H^2.x^(8(i-1)+t).
SquarePowers ==
    LET GfSquare(h) == GfMul(h, h)
    IN [key \in TabledKeys |-> Powers(<<GfSquare(HashKeys[key])>>, 8 * ShortLen)]

\* The product with ps[1] of the block whose only bits are those of byte b
\* at offset off.
BitsProduct(ps, off, b) ==
    LET Term(acc, t) == IF BitAt(b, 2 ^ (7 - t)) = 1 THEN XorBytes(acc, ps[off + t + 1]) ELSE acc
    IN Term(Term(Term(Term(Term(Term(Term(Term(ZeroBlock, 0), 1), 2), 3), 4), 5), 6), 7)

ByteProducts ==
    [key \in TabledKeys |-> [i \in 1..ShortLen |-> [b \in 0..255 |->
        BitsProduct(SquarePowers[key], 8 * (i - 1), b)]]]

LenProducts ==
    [key \in TabledKeys |-> [n \in 0..ShortLen |-> GfMul(LenBlock(n), HashKeys[key])]]

RECURSIVE ShortHashLoop(_, _, _)
ShortHashLoop(key, ct, st) ==
    IF st.i > Len(ct) THEN st.y
    ELSE ShortHashLoop(key, ct, [y |-> XorBytes(st.y, ByteProducts[key][st.i][ct[st.i]]),
                                 i |-> st.i + 1])

\* GHASH under the hash key of key of the ciphertext ct.
KeyedHash(key, ct) ==
    IF key \in TabledKeys /\ Len(ct) <= ShortLen
    THEN ShortHashLoop(key, ct, [y |-> LenProducts[key][Len(ct)], i |-> 1])
    ELSE GHash(HashKey(key), ct)

\* Byte i of the key stream: the counter blocks 2, 3, ... encrypted.
KeyStream(key, nonce, i) ==
    CounterPad(key, nonce, 2 + ((i - 1) \div BlockSize))[((i - 1) % BlockSize) + 1]

\* The counter mode of GCM: data XOR the key stream.
CtrXor(key, nonce, data) ==
    [i \in 1..Len(data) |-> Xor(data[i], KeyStream(key, nonce, i))] \o <<>>

\* The tag: GHASH of the ciphertext XOR the encryption of counter block 1.
GcmTag(key, nonce, ct) == XorBytes(KeyedHash(key, ct), CounterPad(key, nonce, 1))

\* gcm.Seal(nil, nonce, plaintext, nil): ciphertext followed by the tag.
GcmSeal(key, nonce, plaintext) ==
    LET WithTag(ct) == ct \o GcmTag(key, nonce, ct)
    IN WithTag(CtrXor(key, nonce, plaintext))

\* gcm.Open(nil, nonce, sealed, nil): fails when sealed is shorter than a tag
\* or the tag does not verify.
GcmOpen(key, nonce, sealed) ==
    IF Len(sealed) < TagSize THEN [ok |-> FALSE, out |-> <<>>]
    ELSE LET n == Len(sealed) - TagSize
             ct == SubSeq(sealed, 1, n)
             tag == SubSeq(sealed, n + 1, Len(sealed))
         IN IF tag = GcmTag(key, nonce, ct)
            THEN [ok |-> TRUE, out |-> CtrXor(key, nonce, ct)]
            ELSE [ok |-> FALSE, out |-> <<>>]

(***************************************************************************)
(* package crypto                                                          *)
(***************************************************************************)
\* Encrypt with a key check that only rejects keys that are too short.
EncryptChecksMinKeySize(plaintext, key, nonce) ==
    IF Len(key) < KeySize THEN [err |-> "InvalidKeySize", out |-> <<>>]
    ELSE [err |-> "", out |-> nonce \o GcmSeal(key, nonce, plaintext)]

\* Encrypt that seals under a constant nonce instead of the one it drew.
EncryptFixedNonce(plaintext, key, nonce) ==
    LET fixed == [i \in 1..NonceSize |-> 0]
    IN IF Len(key) # KeySize THEN [err |-> "InvalidKeySize", out |-> <<>>]
       ELSE [err |-> "", out |-> fixed \o GcmSeal(key, fixed, plaintext)]

\* Encrypt that returns what Seal appends to nil: no nonce in front.
EncryptWithoutNonce(plaintext, key, nonce) ==
    IF Len(key) # KeySize THEN [err |-> "InvalidKeySize", out |-> <<>>]
    ELSE [err |-> "", out |-> GcmSeal(key, nonce, plaintext)]

\* Encrypt(plaintext, key); nonce is the value read from the random source.
Encrypt(plaintext, key, nonce) ==
    IF Len(key) # KeySize THEN [err |-> "InvalidKeySize", out |-> <<>>]
    ELSE [err |-> "", out |-> nonce \o GcmSeal(key, nonce, plaintext)]

\* What Decrypt returns after gcm.Open: the plaintext, or the wrapped error.
Opened(opened) ==
    IF opened.ok THEN [err |-> "", out |-> opened.out]
    ELSE [err |-> "AuthenticationFailure", out |-> <<>>]

\* The same with the error of Open dropped.
OpenedUnchecked(opened) == [err |-> "", out |-> opened.out]

\* Decrypt that splits the blob one byte too early.
DecryptSplitOffByOne(ciphertext, key) ==
    IF Len(key) # KeySize THEN [err |-> "InvalidKeySize", out |-> <<>>]
    ELSE IF Len(ciphertext) < NonceSize THEN [err |-> "MalformedCiphertext", out |-> <<>>]
    ELSE LET nonce == SubSeq(ciphertext, 1, NonceSize)
             actualCiphertext == SubSeq(ciphertext, NonceSize, Len(ciphertext))
         IN Opened(GcmOpen(key, nonce, actualCiphertext))

\* Decrypt that drops the error of Open.
DecryptIgnoresOpenError(ciphertext, key) ==
    IF Len(key) # KeySize THEN [err |-> "InvalidKeySize", out |-> <<>>]
    ELSE IF Len(ciphertext) < NonceSize THEN [err |-> "MalformedCiphertext", out |-> <<>>]
    ELSE LET nonce == SubSeq(ciphertext, 1, NonceSize)
             actualCiphertext == SubSeq(ciphertext, NonceSize + 1, Len(ciphertext))
         IN OpenedUnchecked(GcmOpen(key, nonce, actualCiphertext))

\* Decrypt whose length check asks for a nonce and a tag.
DecryptRequiresTag(ciphertext, key) ==
    IF Len(key) # KeySize THEN [err |-> "InvalidKeySize", out |-> <<>>]
    ELSE IF Len(ciphertext) < NonceSize + TagSize
    THEN [err |-> "MalformedCiphertext", out |-> <<>>]
    ELSE LET nonce == SubSeq(ciphertext, 1, NonceSize)
             actualCiphertext == SubSeq(ciphertext, NonceSize + 1, Len(ciphertext))
         IN Opened(GcmOpen(key, nonce, actualCiphertext))

Decrypt(ciphertext, key) ==
    IF Len(key) # KeySize THEN [err |-> "InvalidKeySize", out |-> <<>>]
    ELSE IF Len(ciphertext) < NonceSize THEN [err |-> "MalformedCiphertext", out |-> <<>>]
    ELSE LET nonce == SubSeq(ciphertext, 1, NonceSize)
             actualCiphertext == SubSeq(ciphertext, NonceSize + 1, Len(ciphertext))
         IN Opened(GcmOpen(key, nonce, actualCiphertext))

(***************************************************************************)
(* State                                                                   *)
(***************************************************************************)
VARIABLES
    config,     \* table config: name -> value, a function on the names present
    secrets,    \* table secrets: key -> [value, created_at, updated_at]
    now,        \* CURRENT_TIMESTAMP of the storage engine
    server,     \* the serve process: whether it listens, and the key it holds
    result,     \* what the last command did: exit code, stdout, stderr, child
    written,    \* history: key -> plaintext of the last set not followed by a delete
    inPlain,    \* crypto package: the plaintext under test
    inKey,      \* crypto package: the key under test
    calls,      \* crypto package: the Encrypt calls made so far
    dec,        \* crypto package: the last Decrypt call
    esc,        \* export escaping: the plaintext under test and what it became
    response,   \* the last response the server wrote
    remote,     \* the process running run --remote or env --remote
    inflight,   \* the requests the server is handling, one goroutine each
    inits,      \* the init processes on one store, each at its statement
    local,      \* the list, env, run, serve or get between two of its statements
    setter,     \* the set that is between its two statements
    deleter,    \* the delete that is between its two statements
    instants    \* history: the plaintext mappings the store had during a fetch

storeVars == <<config, secrets, now, server, result, written>>

cryptoVars == <<inPlain, inKey, calls, dec>>

escVars == <<esc>>

remoteVars == <<response, remote>>

procVars == <<inflight, inits, local, setter, deleter>>

vars == <<config, secrets, now, server, result, written, inPlain, inKey, calls, dec,
          esc, response, remote, inflight, inits, local, setter, deleter, instants>>

EmptyMap == <<>>

(***************************************************************************)
(* package db: Store                                                       *)
(***************************************************************************)
GetConfig(cfg, key) ==
    IF key \in DOMAIN cfg THEN [err |-> "", out |-> cfg[key]]
    ELSE [err |-> "NotFound", out |-> <<>>]

\* INSERT OR REPLACE INTO config
SetConfig(cfg, key, value) ==
    [k \in (DOMAIN cfg) \cup {key} |-> IF k = key THEN value ELSE cfg[k]]

\* SetSecret as INSERT OR IGNORE: an existing row is kept.
SetSecretInsertOrIgnore(secs, key, encryptedValue, t) ==
    [k \in (DOMAIN secs) \cup {key} |->
        IF k \in DOMAIN secs THEN secs[k]
        ELSE [value |-> encryptedValue, created_at |-> t, updated_at |-> t]]

\* SetSecret as an update of the row when there is one: created_at is kept.
SetSecretKeepsCreatedAt(secs, key, encryptedValue, t) ==
    [k \in (DOMAIN secs) \cup {key} |->
        IF k = key
        THEN [value |-> encryptedValue,
              created_at |-> IF key \in DOMAIN secs THEN secs[key].created_at ELSE t,
              updated_at |-> t]
        ELSE secs[k]]

\* INSERT OR REPLACE INTO secrets ... CURRENT_TIMESTAMP, CURRENT_TIMESTAMP
SetSecret(secs, key, encryptedValue, t) ==
    [k \in (DOMAIN secs) \cup {key} |->
        IF k = key
        THEN [value |-> encryptedValue, created_at |-> t, updated_at |-> t]
        ELSE secs[k]]

GetSecret(secs, key) ==
    IF key \in DOMAIN secs THEN [err |-> "", out |-> secs[key].value]
    ELSE [err |-> "NotFound", out |-> <<>>]

\* DeleteSecret that does not look at the number of rows affected.
DeleteSecretIgnoresRowCount(secs, key) ==
    [err |-> "", secrets |-> [k \in (DOMAIN secs) \ {key} |-> secs[k]]]

\* DELETE FROM secrets WHERE key = ?; no row affected is ErrNotFound.
DeleteSecret(secs, key) ==
    LET rowsAffected == Cardinality({k \in DOMAIN secs : k = key})
    IN IF rowsAffected = 0 THEN [err |-> "NotFound", secrets |-> secs]
       ELSE [err |-> "", secrets |-> [k \in (DOMAIN secs) \ {key} |-> secs[k]]]

\* ORDER BY key ASC
RECURSIVE OrderByKeyAsc(_)
OrderByKeyAsc(S) ==
    IF S = {} THEN <<>>
    ELSE LET first == CHOOSE x \in S : \A y \in S \ {x} : BytesLess(x, y)
         IN <<first>> \o OrderByKeyAsc(S \ {first})

\* ListSecrets with ORDER BY key DESC.
RECURSIVE OrderByKeyDesc(_)
OrderByKeyDesc(S) ==
    IF S = {} THEN <<>>
    ELSE LET first == CHOOSE x \in S : \A y \in S \ {x} : BytesLess(y, x)
         IN <<first>> \o OrderByKeyDesc(S \ {first})

ListSecretsDescending(secs) == OrderByKeyDesc(DOMAIN secs)

\* SELECT key FROM secrets ORDER BY key ASC
ListSecrets(secs) == OrderByKeyAsc(DOMAIN secs)

(***************************************************************************)
(* package main: helpers                                                   *)
(***************************************************************************)
\* getStoreAndKey that goes on with an empty key when the entry is absent.
getStoreAndKeyNoCheck(cfg) ==
    LET keyHex == GetConfig(cfg, EncryptionKeyName)
        decoded == HexDecode(keyHex.out)
    IN IF decoded.err # "" THEN [err |-> "CorruptKey", key |-> <<>>]
       ELSE [err |-> "", key |-> decoded.out]

\* getStoreAndKey: the key of the store, or the error that ends the command.
getStoreAndKey(cfg) ==
    LET keyHex == GetConfig(cfg, EncryptionKeyName)
        decoded == HexDecode(keyHex.out)
    IN IF keyHex.err # "" THEN [err |-> "NotInitialized", key |-> <<>>]
       ELSE IF decoded.err # "" THEN [err |-> "CorruptKey", key |-> <<>>]
       ELSE [err |-> "", key |-> decoded.out]

\* strings.NewReplacer("\\", "\\\\", "\"", "\\\"", "$", "\\$", "`", "\\`"):
\* the old strings and, for each, what replaces it.
EscapePairs ==
    << <<(<<92>>), <<92, 92>>>>, <<(<<34>>), <<92, 34>>>>,
       <<(<<36>>), <<92, 36>>>>, <<(<<96>>), <<92, 96>>>> >>

HasPrefixAt(s, i, old) ==
    /\ i + Len(old) - 1 <= Len(s)
    /\ SubSeq(s, i, i + Len(old) - 1) = old

\* Replacer.Replace: one scan from the left; at each position the first pair
\* whose old string matches is applied and the scan moves past the match.
RECURSIVE ReplaceFrom(_, _, _)
ReplaceFrom(pairs, s, i) ==
    IF i > Len(s) THEN <<>>
    ELSE LET hits == {n \in 1..Len(pairs) : HasPrefixAt(s, i, pairs[n][1])}
         IN IF hits = {} THEN <<s[i]>> \o ReplaceFrom(pairs, s, i + 1)
            ELSE LET n == CHOOSE m \in hits : \A o \in hits : m <= o
                 IN pairs[n][2] \o ReplaceFrom(pairs, s, i + Len(pairs[n][1]))

\* Escaping done as four passes, the backslash pass last.
escapedValueBackslashLast(value) ==
    ReplaceFrom(<<EscapePairs[1]>>, ReplaceFrom(Tail(EscapePairs), value, 1), 1)

\* Escaping with a replacer that has no pair for the backtick.
escapedValueNoBacktick(value) ==
    ReplaceFrom(SubSeq(EscapePairs, 1, 3), value, 1)

escapedValue(value) == ReplaceFrom(EscapePairs, value, 1)

\* The export line without the closing newline.
ExportLineNoNewline(key, value) ==
    <<101, 120, 112, 111, 114, 116, 32>> \o key \o <<61, 34>>
    \o escapedValue(value) \o <<34>>

\* fmt.Printf("export %s=\"%s\"\n", key, escapedValue)
ExportLine(key, value) ==
    <<101, 120, 112, 111, 114, 116, 32>> \o key \o <<61, 34>>
    \o escapedValue(value) \o <<34, 10>>

\* An env, run or get between two of its statements: the key it read, the
\* names it listed, the index of the name it reads next, what it printed so
\* far, the plaintexts it holds, the error that stopped it, the index of the
\* first name it failed on, the secrets as they were when it listed them, and
\* for run the environment it was started in and what its child finds in the
\* environment it was handed.
NoLocal ==
    [pc |-> "idle", cmd |-> "", key |-> <<>>, encKey |-> <<>>, keys |-> <<>>,
     next |-> 0, stdout |-> <<>>, resolved |-> EmptyMap, err |-> "", failed |-> 0,
     start |-> EmptyMap, environ |-> <<>>, childEnv |-> EmptyMap]

\* The command after store.ListSecrets(): the loop over the names starts,
\* or is over when there is none.
Listed(cmd, encKey, keys, secs) ==
    [NoLocal EXCEPT !.pc = IF Len(keys) = 0 THEN "done" ELSE "reading",
                    !.cmd = cmd, !.encKey = encKey, !.keys = keys, !.next = 1,
                    !.start = secs]

\* The plaintext of one more name.
Resolved(mapping, key, value) ==
    [k \in (DOMAIN mapping) \cup {key} |-> IF k = key THEN value ELSE mapping[k]]

\* One round of the loop of env that goes on with the next name after a
\* secret that could not be read or decrypted.
envRoundSkipsFailed(st, secs) ==
    LET key == st.keys[st.next]
        encrypted == GetSecret(secs, key)
        after == [st EXCEPT !.next = @ + 1,
                            !.pc = IF st.next = Len(st.keys) THEN "done" ELSE "reading"]
        mark(err) == [after EXCEPT !.err = err, !.failed = IF @ = 0 THEN st.next ELSE @]
        print(decrypted) ==
            IF decrypted.err # "" THEN mark("DecryptFailed")
            ELSE [after EXCEPT !.stdout = @ \o ExportLine(key, decrypted.out),
                               !.resolved = Resolved(@, key, decrypted.out)]
    IN IF encrypted.err # "" THEN mark("GetFailed")
       ELSE print(Decrypt(encrypted.out, st.encKey))

\* One round of the loop of env: GetSecret of the next name, Decrypt, and the
\* line printed; an error ends the loop.
envRound(st, secs) ==
    LET key == st.keys[st.next]
        encrypted == GetSecret(secs, key)
        print(decrypted) ==
            IF decrypted.err # ""
            THEN [st EXCEPT !.pc = "done", !.err = "DecryptFailed", !.failed = st.next]
            ELSE [st EXCEPT !.stdout = @ \o ExportLine(key, decrypted.out),
                            !.resolved = Resolved(@, key, decrypted.out),
                            !.next = @ + 1,
                            !.pc = IF st.next = Len(st.keys) THEN "done" ELSE "reading"]
    IN IF encrypted.err # ""
       THEN [st EXCEPT !.pc = "done", !.err = "GetFailed", !.failed = st.next]
       ELSE print(Decrypt(encrypted.out, st.encKey))

\* One round of the loop of run: GetSecret of the next name, Decrypt, and the
\* entry of the map; an error ends the loop.
runRound(st, secs) ==
    LET key == st.keys[st.next]
        encrypted == GetSecret(secs, key)
        bind(decrypted) ==
            IF decrypted.err # ""
            THEN [st EXCEPT !.pc = "done", !.err = "DecryptFailed", !.failed = st.next]
            ELSE [st EXCEPT !.resolved = Resolved(@, key, decrypted.out),
                            !.next = @ + 1,
                            !.pc = IF st.next = Len(st.keys) THEN "done" ELSE "reading"]
    IN IF encrypted.err # ""
       THEN [st EXCEPT !.pc = "done", !.err = "GetFailed", !.failed = st.next]
       ELSE bind(Decrypt(encrypted.out, st.encKey))

\* The rounds of env one after the other on secrets that stay as they are.
RECURSIVE envLoop(_, _)
envLoop(st, secs) == IF st.pc = "done" THEN st ELSE envLoop(envRound(st, secs), secs)

\* The rounds of run one after the other on secrets that stay as they are.
RECURSIVE runLoop(_, _)
runLoop(st, secs) == IF st.pc = "done" THEN st ELSE runLoop(runRound(st, secs), secs)

\* The loop of env over the listed keys with no other process between its
\* rounds: the bytes printed, and the error that stopped it ("" when every
\* secret was read and decrypted).
ExportAll(keys, secs, encKey) ==
    LET printed(st) == [err |-> st.err, out |-> st.stdout]
    IN printed(envLoop(Listed("env", encKey, keys, secs), secs))

\* The loop of run over the listed keys with no other process between its
\* rounds: the map of plaintexts, or the error.
ResolveAll(keys, secs, encKey) ==
    LET bound(st) == [err |-> st.err, secrets |-> IF st.err # "" THEN EmptyMap ELSE st.resolved]
    IN bound(runLoop(Listed("run", encKey, keys, secs), secs))

\* strings.Join(keys, "\n")
RECURSIVE JoinLines(_)
JoinLines(keys) ==
    IF Len(keys) = 0 THEN <<>>
    ELSE IF Len(keys) = 1 THEN keys[1]
    ELSE keys[1] \o <<10>> \o JoinLines(Tail(keys))

\* What a finished command leaves: its exit code, the fixed message it printed
\* on stdout (msg), the data bytes it printed on stdout, the kind of the error
\* it printed on stderr, and whether it started a child process; for run also
\* the environment it was started in (environ) and what its child finds in
\* the environment it was handed (childEnv); for env and run the names they
\* listed, the index of the name they failed on, the plaintexts they read and
\* the secrets as they were when the names were listed.
Exited(cmd, key, exitCode, msg, stdout, stderr) ==
    [cmd |-> cmd, key |-> key, running |-> FALSE, exitCode |-> exitCode,
     msg |-> msg, stdout |-> stdout, stderr |-> stderr, spawned |-> FALSE,
     environ |-> <<>>, childEnv |-> EmptyMap, childCode |-> 0,
     keys |-> <<>>, failed |-> 0, resolved |-> EmptyMap, start |-> EmptyMap]

\* A command that has not ended yet.
Running(cmd, key) == [Exited(cmd, key, 0, "", <<>>, "") EXCEPT !.running = TRUE]

\* What env or run leaves of its loop when it ends.
Looped(res, st) ==
    [res EXCEPT !.keys = st.keys, !.failed = st.failed, !.resolved = st.resolved,
                !.start = st.start]

\* os.Exit(1) after the error of getStoreAndKey was printed.
Failed(cmd, key, stderr) == Exited(cmd, key, 1, "", <<>>, stderr)

(***************************************************************************)
(* package main: the commands.  Each command is a process of its own on    *)
(* the store file and takes one step for each statement that touches the   *)
(* store: the read of the key comes first, the statement on the secrets    *)
(* after it, and nothing (no transaction, no lock) ties the two, so a      *)
(* command of another process may run between them.  init reads the key    *)
(* entry, generates a key and writes the key entry; p names its process.   *)
(***************************************************************************)
Initialized == EncryptionKeyName \in DOMAIN config

\* init that does not look for an existing key.
initCmdRegenerates(p) ==
    /\ inits[p].pc \in {"idle", "done"}
    /\ inits' = [inits EXCEPT ![p] = [pc |-> "absent", key |-> <<>>, msg |-> ""]]
    /\ result' = Running("init", <<>>)
    /\ UNCHANGED <<config, secrets, now, server, written>>
    /\ UNCHANGED <<cryptoVars, escVars, remoteVars, inflight, local, setter, deleter, instants>>

\* init, up to store.GetConfig("encryption_key"): with an entry init reports
\* that the store is initialized and ends, without one it goes on.
initCmd(p) ==
    /\ inits[p].pc \in {"idle", "done"}
    /\ IF GetConfig(config, EncryptionKeyName).err = ""
       THEN /\ inits' = [inits EXCEPT ![p] = [pc |-> "done", key |-> <<>>,
                                              msg |-> "AlreadyInitialized"]]
            /\ result' = Exited("init", <<>>, 0, "AlreadyInitialized", <<>>, "")
       ELSE /\ inits' = [inits EXCEPT ![p] = [pc |-> "absent", key |-> <<>>, msg |-> ""]]
            /\ result' = Running("init", <<>>)
    /\ UNCHANGED <<config, secrets, now, server, written>>
    /\ UNCHANGED <<cryptoVars, escVars, remoteVars, inflight, local, setter, deleter, instants>>

\* init: crypto.GenerateKey()
initGenerate(p) ==
    /\ inits[p].pc = "absent"
    /\ \E key \in GenKeys :
          inits' = [inits EXCEPT ![p] = [pc |-> "generated", key |-> key, msg |-> ""]]
    /\ UNCHANGED <<storeVars, cryptoVars, escVars, remoteVars, inflight, local, setter, deleter, instants>>

\* init: store.SetConfig("encryption_key", keyHex) and the message of success.
initWrite(p) ==
    /\ inits[p].pc = "generated"
    /\ config' = SetConfig(config, EncryptionKeyName, HexEncode(inits[p].key))
    /\ inits' = [inits EXCEPT ![p] = [pc |-> "done", key |-> inits[p].key,
                                      msg |-> "Initialized"]]
    /\ result' = Exited("init", <<>>, 0, "Initialized", <<>>, "")
    /\ UNCHANGED <<secrets, now, server, written>>
    /\ UNCHANGED <<cryptoVars, escVars, remoteVars, inflight, local, setter, deleter, instants>>

\* The set that is between getStoreAndKey and Encrypt: its arguments and the
\* key it read.
NoSetter == [pc |-> "idle", key |-> <<>>, value |-> <<>>, encKey |-> <<>>]

\* set, up to the key: getStoreAndKey.
setCmd(key, value) ==
    /\ setter.pc = "idle"
    /\ \E sk \in {getStoreAndKey(config)} :
          IF sk.err # ""
          THEN /\ result' = Failed("set", key, sk.err)
               /\ setter' = setter
          ELSE /\ result' = Running("set", key)
               /\ setter' = [pc |-> "sealing", key |-> key, value |-> value,
                             encKey |-> sk.key]
    /\ UNCHANGED <<config, secrets, now, server, written>>
    /\ UNCHANGED cryptoVars
    /\ UNCHANGED escVars
    /\ UNCHANGED <<remoteVars, inflight, inits, local, deleter, instants>>

\* The second statement of set on a store that keeps the secrets in the
\* table of the config entries.
setWriteSharedTable ==
    /\ setter.pc = "sealing"
    /\ \E nonce \in Nonces :
          \E encrypted \in {Encrypt(setter.value, setter.encKey, nonce)} :
             IF encrypted.err # ""
             THEN /\ secrets' = secrets
                  /\ config' = config
                  /\ result' = Failed("set", setter.key, "EncryptFailed")
             ELSE /\ secrets' = SetSecret(secrets, setter.key, encrypted.out, now)
                  /\ config' = SetConfig(config, setter.key, encrypted.out)
                  /\ result' = Exited("set", setter.key, 0, "SetOk", <<>>, "")
    /\ written' = IF result'.exitCode = 0
                  THEN [k \in (DOMAIN written) \cup {setter.key} |->
                           IF k = setter.key THEN setter.value ELSE written[k]]
                  ELSE written
    /\ instants' = IF remote.pc = "fetching" THEN instants \cup {written'} ELSE instants
    /\ setter' = NoSetter
    /\ UNCHANGED <<now, server>>
    /\ UNCHANGED cryptoVars
    /\ UNCHANGED escVars
    /\ UNCHANGED <<remoteVars, inflight, inits, local, deleter>>

\* set, from crypto.Encrypt on: the value is sealed under the key read
\* before and the row is written.
setWrite ==
    /\ setter.pc = "sealing"
    /\ \E nonce \in Nonces :
          \E encrypted \in {Encrypt(setter.value, setter.encKey, nonce)} :
             IF encrypted.err # ""
             THEN /\ secrets' = secrets
                  /\ result' = Failed("set", setter.key, "EncryptFailed")
             ELSE /\ secrets' = SetSecret(secrets, setter.key, encrypted.out, now)
                  /\ result' = Exited("set", setter.key, 0, "SetOk", <<>>, "")
    /\ written' = IF result'.exitCode = 0
                  THEN [k \in (DOMAIN written) \cup {setter.key} |->
                           IF k = setter.key THEN setter.value ELSE written[k]]
                  ELSE written
    /\ instants' = IF remote.pc = "fetching" THEN instants \cup {written'} ELSE instants
    /\ setter' = NoSetter
    /\ UNCHANGED <<config, now, server>>
    /\ UNCHANGED cryptoVars
    /\ UNCHANGED escVars
    /\ UNCHANGED <<remoteVars, inflight, inits, local, deleter>>

\* get, up to the key: getStoreAndKey.
getCmd(key) ==
    /\ local.pc = "idle"
    /\ \E sk \in {getStoreAndKey(config)} :
          IF sk.err # ""
          THEN /\ result' = Failed("get", key, sk.err)
               /\ local' = local
          ELSE /\ result' = Running("get", key)
               /\ local' = [Listed("get", sk.key, <<key>>, secrets) EXCEPT !.key = key]
    /\ UNCHANGED <<config, secrets, now, server, written>>
    /\ UNCHANGED cryptoVars
    /\ UNCHANGED escVars
    /\ UNCHANGED <<remoteVars, inflight, inits, setter, deleter, instants>>

\* get, from store.GetSecret on: the blob is read, decrypted with the key
\* read before, and printed.
getRead ==
    /\ local.pc = "reading"
    /\ local.cmd = "get"
    /\ \E encrypted \in {GetSecret(secrets, local.key)} :
          \E decrypted \in {Decrypt(encrypted.out, local.encKey)} :
             result' =
                IF encrypted.err # "" THEN Failed("get", local.key, "NotFound")
                ELSE IF decrypted.err # "" THEN Failed("get", local.key, "DecryptFailed")
                ELSE Exited("get", local.key, 0, "", decrypted.out, "")
    /\ local' = NoLocal
    /\ UNCHANGED <<config, secrets, now, server, written>>
    /\ UNCHANGED cryptoVars
    /\ UNCHANGED escVars
    /\ UNCHANGED <<remoteVars, inflight, inits, setter, deleter, instants>>

\* The delete that is between getStoreAndKey and DeleteSecret: its argument
\* and the key it read.
NoDeleter == [pc |-> "idle", key |-> <<>>, encKey |-> <<>>]

\* delete, up to the key: getStoreAndKey.
deleteCmd(key) ==
    /\ deleter.pc = "idle"
    /\ \E sk \in {getStoreAndKey(config)} :
          IF sk.err # ""
          THEN /\ result' = Failed("delete", key, sk.err)
               /\ deleter' = deleter
          ELSE /\ result' = Running("delete", key)
               /\ deleter' = [pc |-> "keyed", key |-> key, encKey |-> sk.key]
    /\ UNCHANGED <<config, secrets, now, server, written>>
    /\ UNCHANGED cryptoVars
    /\ UNCHANGED escVars
    /\ UNCHANGED <<remoteVars, inflight, inits, local, setter, instants>>

\* delete, from store.DeleteSecret on: the row is removed, or there was none.
deleteRow ==
    /\ deleter.pc = "keyed"
    /\ \E deleted \in {DeleteSecret(secrets, deleter.key)} :
          IF deleted.err # ""
          THEN /\ secrets' = secrets
               /\ result' = Failed("delete", deleter.key, "NotFound")
          ELSE /\ secrets' = deleted.secrets
               /\ result' = Exited("delete", deleter.key, 0, "DeleteOk", <<>>, "")
    /\ written' = IF result'.exitCode = 0
                  THEN [k \in (DOMAIN written) \ {deleter.key} |-> written[k]]
                  ELSE written
    /\ instants' = IF remote.pc = "fetching" THEN instants \cup {written'} ELSE instants
    /\ deleter' = NoDeleter
    /\ UNCHANGED <<config, now, server>>
    /\ UNCHANGED cryptoVars
    /\ UNCHANGED escVars
    /\ UNCHANGED <<remoteVars, inflight, inits, local, setter>>

\* list, env, run or serve after getStoreAndKey: the process holds the key
\* and has not made its next statement.
Keyed(cmd, encKey) == [NoLocal EXCEPT !.pc = "keyed", !.cmd = cmd, !.encKey = encKey]

\* list, up to the key: getStoreAndKey.
listCmd ==
    /\ local.pc = "idle"
    /\ \E sk \in {getStoreAndKey(config)} :
          IF sk.err # ""
          THEN /\ result' = Failed("list", <<>>, sk.err)
               /\ local' = local
          ELSE /\ result' = Running("list", <<>>)
               /\ local' = Keyed("list", sk.key)
    /\ UNCHANGED <<config, secrets, now, server, written>>
    /\ UNCHANGED cryptoVars
    /\ UNCHANGED escVars
    /\ UNCHANGED <<remoteVars, inflight, inits, setter, deleter, instants>>

\* list, from store.ListSecrets() on: the names are printed, one a line.
listPrint ==
    /\ local.pc = "keyed"
    /\ local.cmd = "list"
    /\ \E keys \in {ListSecrets(secrets)} :
          result' =
             IF Len(keys) = 0 THEN Exited("list", <<>>, 0, "NoSecretsFound", <<>>, "")
             ELSE Exited("list", <<>>, 0, "", JoinLines(keys) \o <<10>>, "")
    /\ local' = NoLocal
    /\ UNCHANGED <<config, secrets, now, server, written>>
    /\ UNCHANGED cryptoVars
    /\ UNCHANGED escVars
    /\ UNCHANGED <<remoteVars, inflight, inits, setter, deleter, instants>>

\* What env leaves when its loop is over: exit code 1 after an error, the
\* lines printed before it stay printed.
EnvExit(st) ==
    Looped(Exited("env", <<>>, IF st.err # "" THEN 1 ELSE 0, "", st.stdout, st.err), st)

\* env without --remote, up to the key: getStoreAndKey.
envCmd ==
    /\ local.pc = "idle"
    /\ \E sk \in {getStoreAndKey(config)} :
          IF sk.err # ""
          THEN /\ result' = Failed("env", <<>>, sk.err)
               /\ local' = local
          ELSE /\ result' = Running("env", <<>>)
               /\ local' = Keyed("env", sk.key)
    /\ UNCHANGED <<config, secrets, now, server, written>>
    /\ UNCHANGED cryptoVars
    /\ UNCHANGED escVars
    /\ UNCHANGED <<remoteVars, inflight, inits, setter, deleter, instants>>

\* env without --remote, store.ListSecrets(): the names its loop goes over.
envList ==
    /\ local.pc = "keyed"
    /\ local.cmd = "env"
    /\ \E st \in {Listed("env", local.encKey, ListSecrets(secrets), secrets)} :
          IF st.pc = "done"
          THEN /\ result' = EnvExit(st)
               /\ local' = NoLocal
          ELSE /\ result' = Running("env", <<>>)
               /\ local' = st
    /\ UNCHANGED <<config, secrets, now, server, written>>
    /\ UNCHANGED cryptoVars
    /\ UNCHANGED escVars
    /\ UNCHANGED <<remoteVars, inflight, inits, setter, deleter, instants>>

\* env without --remote, one round of its loop.
envRead ==
    /\ local.pc = "reading"
    /\ local.cmd = "env"
    /\ \E st \in {envRound(local, secrets)} :
          IF st.pc = "done"
          THEN /\ result' = EnvExit(st)
               /\ local' = NoLocal
          ELSE /\ result' = result
               /\ local' = st
    /\ UNCHANGED <<config, secrets, now, server, written>>
    /\ UNCHANGED cryptoVars
    /\ UNCHANGED escVars
    /\ UNCHANGED <<remoteVars, inflight, inits, setter, deleter, instants>>

\* Exit codes a child of run can end with.
ChildExitCodes == {0, 1, 3}

\* ExitError.ExitCode() of a child that a signal ended.
Signaled == -1

\* The ways a child of run can end.
ChildEnds == ChildExitCodes \cup {Signaled}

\* os.Environ() of the process that runs the command: a list of "name=value"
\* entries.  Here: a=p and P=q.
Environs == {<<(<<97, 61, 112>>), (<<80, 61, 113>>)>>}

\* fmt.Sprintf("%s=%s", key, value)
EnvEntry(key, value) == key \o <<61>> \o value

\* The orders in which range can walk over a map: every order of its keys.
MapOrders(mapping) ==
    LET n == Cardinality(DOMAIN mapping)
    IN {order \in [1..n -> DOMAIN mapping] :
           \A i, j \in 1..n : i # j => order[i] # order[j]}

\* The entries of the parent first, then one entry for each secret.
BuildEnvSecretsFirst(environ, mapping, order) ==
    [i \in 1..Len(order) |-> EnvEntry(order[i], mapping[order[i]])] \o environ

\* env := os.Environ() and the loop that appends one entry for each secret,
\* in the order in which range walks over the map.
BuildEnv(environ, mapping, order) ==
    environ \o [i \in 1..Len(order) |-> EnvEntry(order[i], mapping[order[i]])]

\* The position of the first '=' of an entry (every entry here holds one).
EqualsAt(entry) ==
    CHOOSE i \in 1..Len(entry) : entry[i] = 61 /\ \A j \in 1..(i - 1) : entry[j] # 61

\* The name of an entry: what stands before its first '='.
EnvName(entry) == SubSeq(entry, 1, EqualsAt(entry) - 1)

\* The value of an entry: what stands after its first '='.
EnvValue(entry) == SubSeq(entry, EqualsAt(entry) + 1, Len(entry))

\* What the child finds in the environment execCmd.Env: for each name the
\* value of the last entry with that name (os/exec drops the earlier ones).
ChildSees(env) ==
    [name \in {EnvName(env[i]) : i \in 1..Len(env)} |->
        EnvValue(env[CHOOSE i \in 1..Len(env) :
                        /\ EnvName(env[i]) = name
                        /\ \A j \in (i + 1)..Len(env) : EnvName(env[j]) # name])]

\* The exit code of run whatever the child ended with, as long as a failed
\* child gives a failed run.
RunExitCodeFlattened(started, code) ==
    IF ~started THEN 1 ELSE IF code = 0 THEN 0 ELSE 1

\* The exit code of run after execCmd.Run(): the code of the child when it
\* ran (no error for 0, an ExitError otherwise), 1 when it could not start.
\* os.Exit(-1), after a signal ended the child, gives the exit status 255.
RunExitCode(started, code) == IF ~started THEN 1 ELSE code % 256

\* run without --remote, after its loop: the error of the loop, or the map
\* ready for the environment of the child.
RunResolved(st) ==
    IF st.err # "" THEN [st EXCEPT !.pc = "done"] ELSE [st EXCEPT !.pc = "resolved"]

\* run without --remote, up to the key: getStoreAndKey.
runCmd ==
    /\ local.pc = "idle"
    /\ \E sk \in {getStoreAndKey(config)} :
          IF sk.err # ""
          THEN /\ result' = Failed("run", <<>>, sk.err)
               /\ local' = local
          ELSE /\ result' = Running("run", <<>>)
               /\ local' = Keyed("run", sk.key)
    /\ UNCHANGED <<config, secrets, now, server, written>>
    /\ UNCHANGED cryptoVars
    /\ UNCHANGED escVars
    /\ UNCHANGED <<remoteVars, inflight, inits, setter, deleter, instants>>

\* run without --remote, store.ListSecrets(): the names its loop goes over.
runList ==
    /\ local.pc = "keyed"
    /\ local.cmd = "run"
    /\ \E st \in {Listed("run", local.encKey, ListSecrets(secrets), secrets)} :
          /\ result' = Running("run", <<>>)
          /\ local' = IF st.pc = "done" THEN RunResolved(st) ELSE st
    /\ UNCHANGED <<config, secrets, now, server, written>>
    /\ UNCHANGED cryptoVars
    /\ UNCHANGED escVars
    /\ UNCHANGED <<remoteVars, inflight, inits, setter, deleter, instants>>

\* run without --remote, one round of its loop.
runRead ==
    /\ local.pc = "reading"
    /\ local.cmd = "run"
    /\ \E st \in {runRound(local, secrets)} :
          IF st.pc = "done" /\ st.err # ""
          THEN /\ result' = Looped(Failed("run", <<>>, st.err), st)
               /\ local' = NoLocal
          ELSE /\ result' = result
               /\ local' = IF st.pc = "done" THEN RunResolved(st) ELSE st
    /\ UNCHANGED <<config, secrets, now, server, written>>
    /\ UNCHANGED cryptoVars
    /\ UNCHANGED escVars
    /\ UNCHANGED <<remoteVars, inflight, inits, setter, deleter, instants>>

\* run without --remote, from the environment to the start of the child.
\* hasCommand: a command follows "--"; started: the child could be started.
runExec ==
    /\ local.pc = "resolved"
    /\ \E environ \in Environs, hasCommand \in BOOLEAN, started \in BOOLEAN :
          \E seen \in {ChildSees(BuildEnv(environ, local.resolved, order)) :
                           order \in MapOrders(local.resolved)} :
             IF ~hasCommand
             THEN /\ result' = Looped(Failed("run", <<>>, "NoCommand"), local)
                  /\ local' = NoLocal
             ELSE IF ~started
             THEN /\ result' = Looped(Exited("run", <<>>, RunExitCode(started, 0), "", <<>>,
                                             "ExecFailed"), local)
                  /\ local' = NoLocal
             ELSE /\ result' = Looped([Running("run", <<>>)
                                          EXCEPT !.spawned = TRUE, !.environ = environ,
                                                 !.childEnv = seen], local)
                  /\ local' = [local EXCEPT !.pc = "waiting", !.environ = environ,
                                             !.childEnv = seen]
    /\ UNCHANGED <<config, secrets, now, server, written>>
    /\ UNCHANGED cryptoVars
    /\ UNCHANGED escVars
    /\ UNCHANGED <<remoteVars, inflight, inits, setter, deleter, instants>>

\* run without --remote, the end of execCmd.Run(): the child has ended with
\* an exit code or by a signal, and run exits.
runWait ==
    /\ local.pc = "waiting"
    /\ \E code \in ChildEnds :
          result' = Looped([Exited("run", <<>>, RunExitCode(TRUE, code), "", <<>>, "")
                               EXCEPT !.spawned = TRUE, !.environ = local.environ,
                                      !.childEnv = local.childEnv, !.childCode = code],
                           local)
    /\ local' = NoLocal
    /\ UNCHANGED <<config, secrets, now, server, written>>
    /\ UNCHANGED cryptoVars
    /\ UNCHANGED escVars
    /\ UNCHANGED <<remoteVars, inflight, inits, setter, deleter, instants>>

\* serve, up to the key: getStoreAndKey, once for all handlers.
serveCmd ==
    /\ local.pc = "idle"
    /\ \E sk \in {getStoreAndKey(config)} :
          IF sk.err # ""
          THEN /\ result' = Failed("serve", <<>>, sk.err)
               /\ local' = local
          ELSE /\ result' = Running("serve", <<>>)
               /\ local' = Keyed("serve", sk.key)
    /\ UNCHANGED <<config, secrets, now, server, written>>
    /\ UNCHANGED cryptoVars
    /\ UNCHANGED escVars
    /\ UNCHANGED <<remoteVars, inflight, inits, setter, deleter, instants>>

\* serve, from the handlers on: with the key in hand the process prints that
\* it listens and listens until it is killed; ListenAndServe fails when the
\* port is already taken.
serveListen ==
    /\ local.pc = "keyed"
    /\ local.cmd = "serve"
    /\ IF server.up
       THEN /\ server' = server
            /\ result' = Exited("serve", <<>>, 1, "Listening", <<>>, "ServerFailed")
       ELSE /\ server' = [up |-> TRUE, encKey |-> local.encKey]
            /\ result' = [Exited("serve", <<>>, 0, "Listening", <<>>, "")
                             EXCEPT !.running = TRUE]
    /\ local' = NoLocal
    /\ UNCHANGED <<config, secrets, now, written>>
    /\ UNCHANGED cryptoVars
    /\ UNCHANGED escVars
    /\ UNCHANGED <<remoteVars, inflight, inits, setter, deleter, instants>>

NoResult == Exited("", <<>>, 0, "", <<>>, "")

NoDec == [blob |-> <<>>, key |-> <<>>, err |-> "none", out |-> <<>>]

(***************************************************************************)
(* package main: the handlers of serve.  A response is the status code,    *)
(* the data bytes of the body, and the kind of the error text that the     *)
(* handler wrote after them ("" when it wrote none).                       *)
(***************************************************************************)
\* "/health", "/secrets", "/secrets/", "/env"
PathHealth == <<47, 104, 101, 97, 108, 116, 104>>

PathSecrets == <<47, 115, 101, 99, 114, 101, 116, 115>>

PathSecretPrefix == <<47, 115, 101, 99, 114, 101, 116, 115, 47>>

PathEnv == <<47, 101, 110, 118>>

\* http.StatusOK, StatusBadRequest, StatusNotFound, StatusInternalServerError
StatusOK == 200

StatusBadRequest == 400

StatusNotFound == 404

StatusInternalServerError == 500

Resp(status, body, msg) == [status |-> status, body |-> body, msg |-> msg]

\* A continuation byte of UTF-8.
Cont(c) == c >= 128 /\ c <= 191

\* utf8.DecodeRuneInString: the length of the UTF-8 sequence that str begins
\* with, 0 when it begins with none (RuneError).
RuneLen(str) ==
    LET c == str[1]
        n == Len(str)
    IN IF c < 128 THEN 1
       ELSE IF c >= 194 /\ c <= 223
       THEN IF n >= 2 /\ Cont(str[2]) THEN 2 ELSE 0
       ELSE IF c >= 224 /\ c <= 239
       THEN IF /\ n >= 3
               /\ str[2] >= (IF c = 224 THEN 160 ELSE 128)
               /\ str[2] <= (IF c = 237 THEN 159 ELSE 191)
               /\ Cont(str[3])
            THEN 3 ELSE 0
       ELSE IF c >= 240 /\ c <= 244
       THEN IF /\ n >= 4
               /\ str[2] >= (IF c = 240 THEN 144 ELSE 128)
               /\ str[2] <= (IF c = 244 THEN 143 ELSE 191)
               /\ Cont(str[3])
               /\ Cont(str[4])
            THEN 4 ELSE 0
       ELSE 0

\* utf8.EncodeRune
RuneBytes(r) ==
    IF r < 128 THEN <<r>>
    ELSE IF r < 2048 THEN <<192 + (r \div 64), 128 + (r % 64)>>
    ELSE IF r < 65536
    THEN <<224 + (r \div 4096), 128 + ((r \div 64) % 64), 128 + (r % 64)>>
    ELSE <<240 + (r \div 262144), 128 + ((r \div 4096) % 64), 128 + ((r \div 64) % 64),
           128 + (r % 64)>>

\* utf8.RuneError, U+FFFD
RuneError == 65533

\* The escape \uXXXX of encoding/json, with lower-case hex digits.
JsonUnicode(r) ==
    <<92, 117, HexDigits[((r \div 4096) % 16) + 1], HexDigits[((r \div 256) % 16) + 1],
      HexDigits[((r \div 16) % 16) + 1], HexDigits[(r % 16) + 1]>>

\* encoding/json, the bytes of a string between its double quotes, as the
\* Encoder writes them (it escapes for HTML): a backslash before a double
\* quote and a backslash; the two-character escapes of newline, carriage
\* return, tab, backspace and form feed; the six-character escape with u and
\* four hex digits for every other control character, for '<', '>', '&',
\* for U+2028 and U+2029, and (as U+FFFD) for a byte that begins no UTF-8
\* sequence; every other character as it is.
RECURSIVE JsonEscape(_)
JsonEscape(str) ==
    IF Len(str) = 0 THEN <<>>
    ELSE LET c == str[1]
             n == RuneLen(str)
         IN IF c \in {34, 92} THEN <<92, c>> \o JsonEscape(Tail(str))
            ELSE IF c = 10 THEN <<92, 110>> \o JsonEscape(Tail(str))
            ELSE IF c = 13 THEN <<92, 114>> \o JsonEscape(Tail(str))
            ELSE IF c = 9 THEN <<92, 116>> \o JsonEscape(Tail(str))
            ELSE IF c = 8 THEN <<92, 98>> \o JsonEscape(Tail(str))
            ELSE IF c = 12 THEN <<92, 102>> \o JsonEscape(Tail(str))
            ELSE IF c < 32 \/ c \in {60, 62, 38} THEN JsonUnicode(c) \o JsonEscape(Tail(str))
            ELSE IF c < 128 THEN <<c>> \o JsonEscape(Tail(str))
            ELSE IF n = 0 THEN JsonUnicode(RuneError) \o JsonEscape(Tail(str))
            ELSE IF n = 3 /\ c = 226 /\ str[2] = 128 /\ str[3] \in {168, 169}
            THEN JsonUnicode(8232 + (str[3] - 168)) \o JsonEscape(SubSeq(str, 4, Len(str)))
            ELSE SubSeq(str, 1, n) \o JsonEscape(SubSeq(str, n + 1, Len(str)))

JsonString(str) == <<34>> \o JsonEscape(str) \o <<34>>

RECURSIVE JsonElements(_)
JsonElements(keys) ==
    IF Len(keys) = 0 THEN <<>>
    ELSE IF Len(keys) = 1 THEN JsonString(keys[1])
    ELSE JsonString(keys[1]) \o <<44>> \o JsonElements(Tail(keys))

\* json.NewEncoder(w).Encode(keys), keys being a []string: a nil slice is
\* written as null, any other as an array; a newline follows.  ListSecrets
\* appends to a nil slice, so its result is nil exactly when it is empty.
JsonEncodeKeys(keys) ==
    IF Len(keys) = 0 THEN <<110, 117, 108, 108, 10>>
    ELSE <<91>> \o JsonElements(keys) \o <<93, 10>>

\* The white space of JSON: space, tab, carriage return, newline.
JsonSpace == {32, 9, 13, 10}

\* The first position from i on that holds no white space.
RECURSIVE JsonSkipSpace(_, _)
JsonSkipSpace(b, i) ==
    IF i <= Len(b) /\ b[i] \in JsonSpace THEN JsonSkipSpace(b, i + 1) ELSE i

\* The value of the four hex digits at position i of b, -1 when they are
\* not all there.
JsonHex4(b, i) ==
    IF i + 3 > Len(b) \/ \E j \in i..(i + 3) : HexVal(b[j]) < 0 THEN -1
    ELSE HexVal(b[i]) * 4096 + HexVal(b[i + 1]) * 256 + HexVal(b[i + 2]) * 16
         + HexVal(b[i + 3])

\* The escape \uXXXX whose hex digits stand at position i of b: the
\* character and the position after it.  Two escapes that are a surrogate
\* pair give one character, a surrogate alone gives U+FFFD.
JsonReadUnicode(b, i) ==
    LET r == JsonHex4(b, i)
        low == IF i + 5 <= Len(b) /\ b[i + 4] = 92 /\ b[i + 5] = 117
               THEN JsonHex4(b, i + 6) ELSE -1
    IN IF r >= 55296 /\ r <= 56319 /\ low >= 56320 /\ low <= 57343
       THEN [rune |-> 65536 + (r - 55296) * 1024 + (low - 56320), next |-> i + 10]
       ELSE IF r >= 55296 /\ r <= 57343 THEN [rune |-> RuneError, next |-> i + 4]
       ELSE [rune |-> r, next |-> i + 4]

\* The characters that stand after a backslash for one byte.
JsonEscapes == <<(<<34, 34>>), (<<92, 92>>), (<<47, 47>>), (<<98, 8>>), (<<102, 12>>),
                 (<<110, 10>>), (<<114, 13>>), (<<116, 9>>)>>

\* The JSON string whose first character (after the opening quote) stands
\* at position i of b: the string read, and the position after its closing
\* quote.  A control character and an unknown escape are errors, a byte that
\* begins no UTF-8 sequence is read as U+FFFD.
RECURSIVE JsonReadString(_, _, _)
JsonReadString(b, i, acc) ==
    IF i > Len(b) THEN [ok |-> FALSE, str |-> <<>>, next |-> i]
    ELSE IF b[i] = 34 THEN [ok |-> TRUE, str |-> acc, next |-> i + 1]
    ELSE IF b[i] = 92
    THEN IF i + 1 > Len(b) THEN [ok |-> FALSE, str |-> <<>>, next |-> i]
         ELSE IF b[i + 1] = 117
         THEN IF JsonHex4(b, i + 2) < 0 THEN [ok |-> FALSE, str |-> <<>>, next |-> i]
              ELSE LET go(read) == JsonReadString(b, read.next, acc \o RuneBytes(read.rune))
                   IN go(JsonReadUnicode(b, i + 2))
         ELSE IF \E k \in 1..Len(JsonEscapes) : JsonEscapes[k][1] = b[i + 1]
         THEN LET k == CHOOSE k \in 1..Len(JsonEscapes) : JsonEscapes[k][1] = b[i + 1]
              IN JsonReadString(b, i + 2, Append(acc, JsonEscapes[k][2]))
         ELSE [ok |-> FALSE, str |-> <<>>, next |-> i]
    ELSE IF b[i] < 32 THEN [ok |-> FALSE, str |-> <<>>, next |-> i]
    ELSE IF b[i] < 128 THEN JsonReadString(b, i + 1, Append(acc, b[i]))
    ELSE LET go(n) == IF n = 0 THEN JsonReadString(b, i + 1, acc \o RuneBytes(RuneError))
                      ELSE JsonReadString(b, i + n, acc \o SubSeq(b, i, i + n - 1))
         IN go(RuneLen(SubSeq(b, i, Len(b))))

\* The literal null stands at position i of b.
JsonNullAt(b, i) == i + 3 <= Len(b) /\ SubSeq(b, i, i + 3) = <<110, 117, 108, 108>>

\* The elements of an array from position i on, where an element begins, up
\* to the closing bracket: a string, or null, which leaves the empty string;
\* white space may stand around each of them.
RECURSIVE JsonReadElements(_, _, _)
JsonReadElements(b, i, acc) ==
    IF i > Len(b) THEN [err |-> "DecodeFailed", keys |-> <<>>]
    ELSE LET go(read, after) ==
                 IF ~read.ok \/ after > Len(b) THEN [err |-> "DecodeFailed", keys |-> <<>>]
                 ELSE IF b[after] = 44
                 THEN JsonReadElements(b, JsonSkipSpace(b, after + 1), Append(acc, read.str))
                 ELSE IF b[after] = 93 THEN [err |-> "", keys |-> Append(acc, read.str)]
                 ELSE [err |-> "DecodeFailed", keys |-> <<>>]
             element(read) == go(read, JsonSkipSpace(b, read.next))
         IN element(IF b[i] = 34 THEN JsonReadString(b, i + 1, <<>>)
                    ELSE IF JsonNullAt(b, i) THEN [ok |-> TRUE, str |-> <<>>, next |-> i + 4]
                    ELSE [ok |-> FALSE, str |-> <<>>, next |-> i])

\* json.NewDecoder(body).Decode(&keys), keys being a []string: null gives
\* no keys, an array of strings its elements, anything else (a body that
\* ends early too) an error.  White space before the value is skipped, what
\* follows the value is not read.
JsonDecodeKeys(b) ==
    LET i == JsonSkipSpace(b, 1)
        first == JsonSkipSpace(b, i + 1)
    IN IF JsonNullAt(b, i) THEN [err |-> "", keys |-> <<>>]
       ELSE IF i > Len(b) \/ b[i] # 91 THEN [err |-> "DecodeFailed", keys |-> <<>>]
       ELSE IF first <= Len(b) /\ b[first] = 93 THEN [err |-> "", keys |-> <<>>]
       ELSE JsonReadElements(b, first, <<>>)

\* json.NewEncoder(w).Encode(map[string]string{"status": "ok"})
HealthResponse ==
    Resp(StatusOK,
         <<123, 34, 115, 116, 97, 116, 117, 115, 34, 58, 34, 111, 107, 34, 125, 10>>, "")

\* The handler of /secrets.
SecretsResponse(secs) == Resp(StatusOK, JsonEncodeKeys(ListSecrets(secs)), "")

\* The handler of /env.  The first Fprintf of a line sends the header with
\* status 200; a WriteHeader(500) after that changes nothing, and the error
\* text follows the lines already written.
EnvResponse(secs, encKey) ==
    LET answered(exported) ==
            IF exported.err = "" THEN Resp(StatusOK, exported.out, "")
            ELSE IF Len(exported.out) = 0
            THEN Resp(StatusInternalServerError, <<>>, exported.err)
            ELSE Resp(StatusOK, exported.out, exported.err)
    IN answered(ExportAll(ListSecrets(secs), secs, encKey))

\* strings.TrimPrefix(r.URL.Path, "/secrets/")
TrimPrefix(str, prefix) ==
    IF HasPrefixAt(str, 1, prefix) THEN SubSeq(str, Len(prefix) + 1, Len(str)) ELSE str

\* The handler of /secrets/ that answers an absent key as a server error.
SecretResponseAbsentIs500(path, secs, encKey) ==
    LET key == TrimPrefix(path, PathSecretPrefix)
        encrypted == GetSecret(secs, key)
        answer(decrypted) ==
            IF decrypted.err # "" THEN Resp(StatusInternalServerError, <<>>, "DecryptFailed")
            ELSE Resp(StatusOK, decrypted.out, "")
    IN IF Len(key) = 0 THEN Resp(StatusBadRequest, <<>>, "NoKeySpecified")
       ELSE IF encrypted.err # "" THEN Resp(StatusInternalServerError, <<>>, "GetFailed")
       ELSE answer(Decrypt(encrypted.out, encKey))

\* The handler of /secrets/.
SecretResponse(path, secs, encKey) ==
    LET key == TrimPrefix(path, PathSecretPrefix)
        encrypted == GetSecret(secs, key)
        answer(decrypted) ==
            IF decrypted.err # "" THEN Resp(StatusInternalServerError, <<>>, "DecryptFailed")
            ELSE Resp(StatusOK, decrypted.out, "")
    IN IF Len(key) = 0 THEN Resp(StatusBadRequest, <<>>, "NoKeySpecified")
       ELSE IF encrypted.err # "" THEN Resp(StatusNotFound, <<>>, "NotFound")
       ELSE answer(Decrypt(encrypted.out, encKey))

\* http.DefaultServeMux: the exact patterns /health, /secrets and /env, the
\* subtree /secrets/, and http.NotFound for every other path (paths that the
\* mux would redirect, with "//" or "..", are not among the model's paths).
Route(path, secs, encKey) ==
    IF path = PathHealth THEN HealthResponse
    ELSE IF path = PathSecrets THEN SecretsResponse(secs)
    ELSE IF path = PathEnv THEN EnvResponse(secs, encKey)
    ELSE IF HasPrefixAt(path, 1, PathSecretPrefix) THEN SecretResponse(path, secs, encKey)
    ELSE Resp(StatusNotFound, <<>>, "PageNotFound")

\* What the server wrote last: the path asked for and the response; stamp
\* alternates with every response.
Served(path, resp) ==
    [path |-> path, status |-> resp.status, body |-> resp.body, msg |-> resp.msg,
     stamp |-> 1 - response.stamp]

\* Request methods; no handler looks at the method.
Methods == {"GET", "DELETE"}

healthHandler(method) ==
    /\ server.up
    /\ response' = Served(PathHealth, HealthResponse)
    /\ UNCHANGED <<storeVars, cryptoVars, escVars, remote, procVars, instants>>

secretsHandler(method) ==
    /\ server.up
    /\ response' = Served(PathSecrets, SecretsResponse(secrets))
    /\ UNCHANGED <<storeVars, cryptoVars, escVars, remote, procVars, instants>>

\* The handler of /secrets/ that deletes the secret on a DELETE request.
secretHandlerHonoursDelete(method, path) ==
    /\ server.up
    /\ response' = Served(path, SecretResponse(path, secrets, server.encKey))
    /\ secrets' = IF method = "DELETE"
                  THEN DeleteSecret(secrets, TrimPrefix(path, PathSecretPrefix)).secrets
                  ELSE secrets
    /\ UNCHANGED <<config, now, server, result, written, cryptoVars, escVars, remote, procVars, instants>>

secretHandler(method, path) ==
    /\ server.up
    /\ response' = Served(path, SecretResponse(path, secrets, server.encKey))
    /\ UNCHANGED <<storeVars, cryptoVars, escVars, remote, procVars, instants>>

\* Any path no pattern matches.
notFoundHandler(method, path) ==
    /\ server.up
    /\ response' = Served(path, Route(path, secrets, server.encKey))
    /\ UNCHANGED <<storeVars, cryptoVars, escVars, remote, procVars, instants>>

\* No plaintext has been escaped.
NoEsc == [plain |-> <<>>, escaped |-> <<>>, done |-> FALSE]

\* The server has written no response.
NoResponse == [path |-> <<>>, status |-> 0, body |-> <<>>, msg |-> "", stamp |-> 0]

\* No remote command is running.
NoRemote ==
    [cmd |-> "", pc |-> "idle", keys |-> <<>>, secrets |-> EmptyMap, sent |-> <<>>,
     exitCode |-> 0, stdout |-> <<>>, msg |-> "", stderr |-> "", spawned |-> FALSE,
     start |-> EmptyMap, failed |-> 0, transport |-> "ok", childEnv |-> EmptyMap]

\* The goroutines of the server that handle requests at the same time.
Goroutines == {1, 2}

\* A goroutine that handles no request.  client tells whose request it is:
\* "remote" for the request of env --remote, "" for any other client.
NoRequest ==
    [pc |-> "idle", path |-> <<>>, keys |-> <<>>, next |-> 0, status |-> 0,
     body |-> <<>>, msg |-> "", client |-> ""]

\* No request is being handled.
NoInflight == [g \in Goroutines |-> NoRequest]

\* The init processes started at the same time on one store file.
InitProcs == {1, 2}

\* The init process of commands that run one after another.
OneInit == {p \in InitProcs : \A q \in InitProcs : p <= q}

\* No init process runs.
NoInits == [p \in InitProcs |-> [pc |-> "idle", key |-> <<>>, msg |-> ""]]

\* Nothing was escaped, no request was served, no remote command runs, no
\* request is in flight and no init runs step by step.
RestInit ==
    /\ esc = NoEsc
    /\ response = NoResponse
    /\ remote = NoRemote
    /\ inflight = NoInflight
    /\ inits = NoInits
    /\ local = NoLocal
    /\ setter = NoSetter
    /\ deleter = NoDeleter
    /\ instants = {}

(***************************************************************************)
(* The handlers of serve, step by step.  net/http runs every request in a  *)
(* goroutine of its own; a goroutine takes one step for each statement     *)
(* that reads the store, so the loop of /env is one step per key and the   *)
(* steps of the goroutines interleave with each other and with the         *)
(* commands of other processes.  All goroutines share the store and the    *)
(* key that serve read at its start; each has its own ResponseWriter.      *)
(***************************************************************************)
\* The request of the goroutine has its response.
Answered(r, resp) ==
    [r EXCEPT !.pc = "done", !.status = resp.status, !.body = resp.body,
              !.msg = resp.msg]

\* A request arrives and is given to a goroutine.
acceptRequest(g, path) ==
    /\ server.up
    /\ inflight[g].pc = "idle"
    /\ inflight' = [inflight EXCEPT ![g] = [NoRequest EXCEPT !.pc = "routed",
                                                            !.path = path]]
    /\ UNCHANGED <<storeVars, cryptoVars, escVars, remoteVars, inits, local, setter, deleter, instants>>

\* The handler runs up to its first read of the store and through it: /env
\* lists the keys and enters its loop, every other handler answers.
routeStep(g) ==
    /\ inflight[g].pc = "routed"
    /\ \E r \in {inflight[g]} :
          IF r.path = PathEnv
          THEN \E keys \in {ListSecrets(secrets)} :
                  inflight' = [inflight EXCEPT ![g] =
                                  IF Len(keys) = 0
                                  THEN Answered(r, Resp(StatusOK, <<>>, ""))
                                  ELSE [r EXCEPT !.pc = "exporting", !.keys = keys,
                                                 !.next = 1]]
          ELSE inflight' = [inflight EXCEPT ![g] =
                               Answered(r, Route(r.path, secrets, server.encKey))]
    /\ UNCHANGED <<storeVars, cryptoVars, escVars, remoteVars, inits, local, setter, deleter, instants>>

\* One round of the loop of /env, the key taken from a position that all
\* goroutines share.
ExportRoundSharedCursor(g) ==
    LET r == inflight[g]
        cursor == CHOOSE n \in {inflight[h].next : h \in Goroutines} :
                     \A h \in Goroutines : inflight[h].next <= n
        key == r.keys[cursor]
        encrypted == GetSecret(secrets, key)
        status == IF Len(r.body) = 0 THEN StatusInternalServerError ELSE StatusOK
        line(body) ==
            IF r.next = Len(r.keys) THEN Answered(r, Resp(StatusOK, body, ""))
            ELSE [r EXCEPT !.body = body, !.next = r.next + 1]
        write(decrypted) ==
            IF decrypted.err # "" THEN Answered(r, Resp(status, r.body, "DecryptFailed"))
            ELSE line(r.body \o ExportLine(key, decrypted.out))
    IN IF encrypted.err # "" THEN Answered(r, Resp(status, r.body, "GetFailed"))
       ELSE write(Decrypt(encrypted.out, server.encKey))

\* One round of the loop of /env: the next key is read, decrypted and its
\* line written; an error ends the request, with status 500 only when no
\* line was written before it.
ExportRound(g) ==
    LET r == inflight[g]
        key == r.keys[r.next]
        encrypted == GetSecret(secrets, key)
        status == IF Len(r.body) = 0 THEN StatusInternalServerError ELSE StatusOK
        line(body) ==
            IF r.next = Len(r.keys) THEN Answered(r, Resp(StatusOK, body, ""))
            ELSE [r EXCEPT !.body = body, !.next = r.next + 1]
        write(decrypted) ==
            IF decrypted.err # "" THEN Answered(r, Resp(status, r.body, "DecryptFailed"))
            ELSE line(r.body \o ExportLine(key, decrypted.out))
    IN IF encrypted.err # "" THEN Answered(r, Resp(status, r.body, "GetFailed"))
       ELSE write(Decrypt(encrypted.out, server.encKey))

exportStep(g) ==
    /\ inflight[g].pc = "exporting"
    /\ inflight' = [inflight EXCEPT ![g] = ExportRound(g)]
    /\ UNCHANGED <<storeVars, cryptoVars, escVars, remoteVars, inits, local, setter, deleter, instants>>

\* The client has its response and the goroutine ends.
deliverResponse(g) ==
    /\ inflight[g].pc = "done"
    /\ inflight[g].client = ""
    /\ inflight' = [inflight EXCEPT ![g] = NoRequest]
    /\ UNCHANGED <<storeVars, cryptoVars, escVars, remoteVars, inits, local, setter, deleter, instants>>

\* The next step of the handler that the goroutine runs.
handlerStep(g) == routeStep(g) \/ exportStep(g)

\* Nothing stands between two of its statements: no init, list, env, run,
\* serve, get, set or delete, and no request.
Quiet ==
    /\ local.pc = "idle"
    /\ setter.pc = "idle"
    /\ deleter.pc = "idle"
    /\ \A p \in InitProcs : inits[p].pc \in {"idle", "done"}
    /\ \A g \in Goroutines : inflight[g].pc = "idle"

(***************************************************************************)
(* package main: run --remote and env --remote.  A remote command is a     *)
(* process of its own: between two of its requests other commands may run. *)
(* remote holds its position (pc), the keys it was told, the mapping built *)
(* so far, the requests sent, and how it ended; start, failed and          *)
(* transport are history: the secrets when it began, the number of the     *)
(* first request that went wrong, and whether the transport broke.         *)
(***************************************************************************)
\* What can happen to a request on the way: it is answered, the connection
\* cannot be made, or it breaks while the client reads the body.
Transports == {"ok", "refused", "cut"}

\* The path the server sees for the URL "http://" + remote + raw: what
\* stands before the first '?' or '#' (the model's keys hold no '%').
RequestPath(raw) ==
    LET stops == {i \in 1..Len(raw) : raw[i] \in {35, 63}}
    IN IF stops = {} THEN raw
       ELSE SubSeq(raw, 1, (CHOOSE i \in stops : \A j \in stops : i <= j) - 1)

\* http.Get(url) answered from the store as it was when the remote command
\* began.
HttpGetFromSnapshot(raw, t) ==
    IF ~server.up \/ t = "refused"
    THEN [err |-> "TransportFailed", path |-> <<>>, status |-> 0, body |-> <<>>, msg |-> ""]
    ELSE LET path == RequestPath(raw)
             got(resp) == [err |-> "", path |-> path, status |-> resp.status,
                           body |-> resp.body, msg |-> resp.msg]
         IN got(Route(path, IF remote.pc = "idle" THEN secrets ELSE remote.start,
                      server.encKey))

\* http.Get(url): an error, or the response of the server.
HttpGet(raw, t) ==
    IF ~server.up \/ t = "refused"
    THEN [err |-> "TransportFailed", path |-> <<>>, status |-> 0, body |-> <<>>, msg |-> ""]
    ELSE LET path == RequestPath(raw)
             got(resp) == [err |-> "", path |-> path, status |-> resp.status,
                           body |-> resp.body, msg |-> resp.msg]
         IN got(Route(path, secrets, server.encKey))

\* The response the server wrote for a request of a remote command.
AfterGet(got) == IF got.err = "" THEN Served(got.path, got) ELSE response

\* The remote command ends with an error of the transport or of the server.
RemoteFailed(cmd, sent, stderr, t) ==
    [cmd |-> cmd, pc |-> "done", keys |-> <<>>, secrets |-> EmptyMap, sent |-> sent,
     exitCode |-> 1, stdout |-> <<>>, msg |-> "", stderr |-> stderr, spawned |-> FALSE,
     start |-> IF remote.pc = "idle" THEN secrets ELSE remote.start,
     failed |-> Len(sent), transport |-> t, childEnv |-> EmptyMap]

\* run --remote after fetchRemoteSecrets returned the mapping: the check for
\* a command and the start of the child.  With no command, or with a child
\* that cannot be started, run exits with 1; else it waits in execCmd.Run().
RemoteStarted(keys, mapping, sent, seen, hasCommand, started) ==
    [cmd |-> "run", pc |-> IF hasCommand /\ started THEN "running" ELSE "done",
     keys |-> keys, secrets |-> mapping, sent |-> sent,
     exitCode |-> IF hasCommand /\ started THEN 0
                  ELSE IF hasCommand THEN RunExitCode(started, 0) ELSE 1,
     stdout |-> <<>>, msg |-> "",
     stderr |-> IF ~hasCommand THEN "NoCommand" ELSE IF ~started THEN "ExecFailed" ELSE "",
     spawned |-> hasCommand /\ started,
     start |-> IF remote.pc = "idle" THEN secrets ELSE remote.start,
     failed |-> 0, transport |-> "ok",
     childEnv |-> IF hasCommand /\ started THEN seen ELSE EmptyMap]

\* run --remote from its start to the decoded key list; with no keys the
\* loop is empty and the command goes on to the start of the child.
remoteRunList ==
    /\ remote.pc = "idle"
    /\ \E t \in Transports :
          \E got \in {HttpGet(PathSecrets, t)} :
             \E decoded \in {JsonDecodeKeys(IF t = "cut"
                                              THEN SubSeq(got.body, 1, Len(got.body) - 2)
                                              ELSE got.body)} :
                /\ response' = AfterGet(got)
                /\ IF got.err # ""
                   THEN remote' = RemoteFailed("run", <<PathSecrets>>, "RemoteError", t)
                   ELSE IF got.status # StatusOK
                   THEN remote' = RemoteFailed("run", <<PathSecrets>>, "RemoteStatus", t)
                   ELSE IF decoded.err # ""
                   THEN remote' = RemoteFailed("run", <<PathSecrets>>, "DecodeFailed", t)
                   ELSE IF Len(decoded.keys) = 0
                   THEN \E environ \in Environs, hasCommand \in BOOLEAN,
                           started \in BOOLEAN :
                           remote' = RemoteStarted(<<>>, EmptyMap, <<PathSecrets>>,
                                                   ChildSees(environ),
                                                   hasCommand, started)
                   ELSE remote' = [NoRemote EXCEPT !.cmd = "run", !.pc = "fetching",
                                                   !.keys = decoded.keys,
                                                   !.sent = <<PathSecrets>>,
                                                   !.start = secrets]
    /\ instants' = {written}
    /\ UNCHANGED <<storeVars, cryptoVars, escVars, procVars>>

\* One round of the loop of fetchRemoteSecrets: the request for the next
\* key; after the last key the command goes on to the start of the child.
remoteRunFetch ==
    /\ remote.pc = "fetching"
    /\ \E t \in Transports, key \in {remote.keys[Len(remote.sent)]} :
          \E got \in {HttpGet(PathSecretPrefix \o key, t)},
             sent \in {Append(remote.sent, PathSecretPrefix \o key)} :
             /\ response' = AfterGet(got)
             /\ IF got.err # ""
                THEN remote' = RemoteFailed("run", sent, "RemoteError", t)
                ELSE IF got.status # StatusOK
                THEN remote' = RemoteFailed("run", sent, "RemoteStatus", t)
                ELSE IF t = "cut"
                THEN remote' = RemoteFailed("run", sent, "ReadFailed", t)
                ELSE \E mapping \in {[k \in (DOMAIN remote.secrets) \cup {key} |->
                                         IF k = key THEN got.body ELSE remote.secrets[k]]} :
                        IF Len(sent) <= Len(remote.keys)
                        THEN remote' = [remote EXCEPT !.secrets = mapping, !.sent = sent]
                        ELSE \E seen \in {ChildSees(BuildEnv(environ, mapping, order)) :
                                              environ \in Environs,
                                              order \in MapOrders(mapping)},
                                hasCommand \in BOOLEAN, started \in BOOLEAN :
                                remote' = RemoteStarted(remote.keys, mapping, sent, seen,
                                                        hasCommand, started)
    /\ UNCHANGED <<storeVars, cryptoVars, escVars, procVars, instants>>

\* run --remote, the end of execCmd.Run(): the child has ended with an exit
\* code or by a signal, and run exits.
remoteRunWait ==
    /\ remote.pc = "running"
    /\ \E code \in ChildEnds :
          remote' = [remote EXCEPT !.pc = "done", !.exitCode = RunExitCode(TRUE, code)]
    /\ UNCHANGED <<storeVars, cryptoVars, escVars, response, procVars, instants>>

\* env --remote, http.Get up to the request: the connection cannot be made,
\* or a goroutine of the server takes the request for /env.
remoteEnvSend ==
    /\ remote.pc = "idle"
    /\ \E t \in Transports :
          IF ~server.up \/ t = "refused"
          THEN /\ remote' = RemoteFailed("env", <<PathEnv>>, "RemoteError", t)
               /\ inflight' = inflight
          ELSE \E g \in Goroutines :
                  /\ inflight[g].pc = "idle"
                  /\ inflight' = [inflight EXCEPT ![g] =
                                     [NoRequest EXCEPT !.pc = "routed", !.path = PathEnv,
                                                       !.client = "remote"]]
                  /\ remote' = [NoRemote EXCEPT !.cmd = "env", !.pc = "waiting",
                                                !.sent = <<PathEnv>>, !.start = secrets,
                                                !.transport = t]
    /\ UNCHANGED <<storeVars, cryptoVars, escVars, response, inits, local, setter, deleter, instants>>

\* fmt.Fprintf(w, "Error: %v", err) of the handler of /env, as bytes:
\* "Error: key not found" for ErrNotFound of GetSecret, and "Error:
\* decryption failed: cipher: message authentication failed" for the error
\* of Decrypt (the key that serve holds has 32 bytes and every served blob at
\* least 12, so Decrypt fails in gcm.Open only).
ErrorText(msg) ==
    IF msg = "GetFailed"
    THEN <<69, 114, 114, 111, 114, 58, 32, 107, 101, 121, 32, 110, 111, 116,
         32, 102, 111, 117, 110, 100>>
    ELSE IF msg = "DecryptFailed"
    THEN <<69, 114, 114, 111, 114, 58, 32, 100, 101, 99, 114, 121, 112, 116,
         105, 111, 110, 32, 102, 97, 105, 108, 101, 100, 58, 32, 99, 105,
         112, 104, 101, 114, 58, 32, 109, 101, 115, 115, 97, 103, 101, 32,
         97, 117, 116, 104, 101, 110, 116, 105, 99, 97, 116, 105, 111,
         110, 32, 102, 97, 105, 108, 101, 100>>
    ELSE <<>>

\* env --remote, from the response on: the status is checked and the body,
\* the lines and the error text that may follow them, is copied to stdout
\* as far as it arrives; the result of the copy is not looked at.  msg names
\* the error text that stdout ends with, when it arrived whole.
remoteEnvReceive ==
    /\ remote.pc = "waiting"
    /\ \E g \in Goroutines :
          /\ inflight[g].pc = "done"
          /\ inflight[g].client = "remote"
          /\ \E got \in {inflight[g]}, t \in {remote.transport} :
                /\ response' = Served(PathEnv, got)
                /\ IF got.status # StatusOK
                   THEN remote' = RemoteFailed("env", <<PathEnv>>, "RemoteStatus", t)
                   ELSE \E wire \in {got.body \o ErrorText(got.msg)} :
                           \E arrived \in (IF t = "cut" THEN 0..Len(wire)
                                                         ELSE {Len(wire)}) :
                              remote' = [remote EXCEPT
                                            !.pc = "done",
                                            !.stdout = SubSeq(wire, 1, arrived),
                                            !.msg = IF arrived = Len(wire)
                                                    THEN got.msg ELSE "",
                                            !.failed = IF t = "cut" THEN 1 ELSE 0]
          /\ inflight' = [inflight EXCEPT ![g] = NoRequest]
    /\ UNCHANGED <<storeVars, cryptoVars, escVars, inits, local, setter, deleter, instants>>

StoreInit ==
    /\ config = EmptyMap
    /\ secrets = EmptyMap
    /\ now = 0
    /\ server = [up |-> FALSE, encKey |-> <<>>]
    /\ result = NoResult
    /\ written = EmptyMap

Init ==
    /\ StoreInit
    /\ RestInit
    /\ inPlain = <<>>
    /\ inKey = <<>>
    /\ calls = <<>>
    /\ dec = NoDec

\* The commands one after another: a command starts when the one before it
\* has ended.  These are all steps but the two of an init that found no key
\* entry.
Commands ==
    \/ /\ Quiet
       /\ \/ \E p \in OneInit : initCmd(p)
          \/ \E key \in SecretKeys, value \in Values : setCmd(key, value)
          \/ \E key \in SecretKeys : getCmd(key)
          \/ \E key \in SecretKeys : deleteCmd(key)
          \/ listCmd
          \/ envCmd
          \/ runCmd
          \/ serveCmd
    \/ setWrite
    \/ getRead
    \/ deleteRow
    \/ listPrint
    \/ serveListen
    \/ envList
    \/ runList
    \/ envRead
    \/ runRead
    \/ runExec
    \/ runWait

Next ==
    \/ Commands
    \/ \E p \in InitProcs : initGenerate(p)
    \/ \E p \in InitProcs : initWrite(p)

Spec == Init /\ [][Next]_vars

(***************************************************************************)
(* The commands on a store file that was not written by init: the file is  *)
(* an input (its path comes from the environment), and its encryption_key  *)
(* entry can hold any bytes.                                               *)
(***************************************************************************)
\* Values found under encryption_key: "zz" (no hex), "abc" (odd length),
\* "abcd" (two bytes), "" (no bytes), and the hex of 33 bytes.
StoredKeyValues ==
    {<<122, 122>>, <<97, 98, 99>>, <<97, 98, 99, 100>>, <<>>,
     HexEncode([i \in 1..(KeySize + 1) |-> 17])}

\* Secrets found in the file: none, or "a" written under a generated key.
StoredSecrets ==
    {EmptyMap}
    \cup {SetSecret(EmptyMap, <<97>>, Encrypt(<<36>>, key, nonce).out, 0) :
             key \in GenKeys, nonce \in Nonces}

InitStored ==
    /\ config \in {SetConfig(EmptyMap, EncryptionKeyName, v) : v \in StoredKeyValues}
    /\ secrets \in StoredSecrets
    /\ now = 0
    /\ server = [up |-> FALSE, encKey |-> <<>>]
    /\ result = NoResult
    /\ written = EmptyMap
    /\ RestInit
    /\ inPlain = <<>>
    /\ inKey = <<>>
    /\ calls = <<>>
    /\ dec = NoDec

\* Every file has a key entry, so init ends at its first statement.
NextStored == Commands

SpecStored == InitStored /\ [][NextStored]_vars

(***************************************************************************)
(* package crypto on its own: Encrypt and Decrypt applied to inputs drawn  *)
(* from bounded sets                                                       *)
(***************************************************************************)
\* XOR masks used to change one byte of a blob.
FlipMasks == {1, 255}

FlipByte(blob, pos, mask) == [blob EXCEPT ![pos] = Xor(blob[pos], mask)]

\* Blobs that come from no Encrypt call: zero bytes of several lengths.
RawBlobs == {[i \in 1..n |-> 0] : n \in {0, NonceSize - 1, NonceSize, NonceSize + TagSize}}

\* The blob with two of its bytes exchanged.
SwapBytes(blob, p, q) == [blob EXCEPT ![p] = blob[q], ![q] = blob[p]]

\* The blob with 1 added to the bytes at two positions.
BumpBytes(blob, p, q) == [blob EXCEPT ![p] = (@ + 1) % 256, ![q] = (@ + 1) % 256]

\* Blobs offered to Decrypt: the blob the last Encrypt call returned, that
\* blob with one byte changed, with two bytes after the nonce changed
\* together or exchanged, its prefixes, and the raw blobs.
Candidates ==
    LET last == IF Len(calls) = 0 THEN <<>> ELSE calls[Len(calls)].out
        after == (NonceSize + 1)..Len(last)
    IN  RawBlobs
        \cup {last}
        \cup {FlipByte(last, pos, mask) : pos \in 1..Len(last), mask \in FlipMasks}
        \cup {BumpBytes(last, p, Len(last) - TagSize + 1) : p \in {q \in after : q <= Len(last) - TagSize}}
        \cup {SwapBytes(last, p, p + 1) : p \in {q \in after : q < Len(last)}}
        \cup {SubSeq(last, 1, n) : n \in {m \in {NonceSize - 1, NonceSize, Len(last) - 1} : m <= Len(last)}}

\* Encrypt calls come first, then one Decrypt call.
EncryptCall ==
    /\ dec = NoDec
    /\ Len(calls) < MaxCalls
    /\ \E nonce \in Nonces :
          LET r == Encrypt(inPlain, inKey, nonce)
          IN calls' = Append(calls, [nonce |-> nonce, err |-> r.err, out |-> r.out])
    /\ UNCHANGED <<inPlain, inKey, dec>>
    /\ UNCHANGED storeVars
    /\ UNCHANGED escVars
    /\ UNCHANGED <<remoteVars, procVars, instants>>

DecryptCall ==
    /\ dec = NoDec
    /\ \E blob \in Candidates, key \in GenKeys \cup NearKeys \cup BadKeys :
          LET r == Decrypt(blob, key)
          IN dec' = [blob |-> blob, key |-> key, err |-> r.err, out |-> r.out]
    /\ UNCHANGED <<inPlain, inKey, calls>>
    /\ UNCHANGED storeVars
    /\ UNCHANGED escVars
    /\ UNCHANGED <<remoteVars, procVars, instants>>

InitCrypto ==
    /\ StoreInit
    /\ RestInit
    /\ inPlain \in Plaintexts
    /\ inKey \in GenKeys \cup BadKeys
    /\ calls = <<>>
    /\ dec = NoDec

NextCrypto == EncryptCall \/ DecryptCall

SpecCrypto == InitCrypto /\ [][NextCrypto]_vars

(***************************************************************************)
(* The server on a store file: the file is an input, its secrets may have  *)
(* been written under the key of the file or damaged since.  Requests come *)
(* from any client; env and delete run locally on the same file.           *)
(***************************************************************************)
\* Secret names in the served file: "a", "a?<", "b"; the second holds a
\* character that ends the path of a URL and one that JSON escapes.
ServeKeys == {<<97>>, <<97, 63, 60>>, <<98>>}

\* Plaintexts in the served file: "" and "$a".
ServeValues == {<<>>, <<36, 97>>}

\* The key of the served file and the nonce its blobs were sealed with.
ServeKey == [i \in 1..KeySize |-> (17 + i) % 256]

ServeNonce == [i \in 1..NonceSize |-> (5 * i) % 256]

\* Blobs in the served file: sealed values, and one whose last byte changed.
ServeBlobs ==
    LET sealed == {Encrypt(v, ServeKey, ServeNonce).out : v \in ServeValues}
        whole == Encrypt(<<36, 97>>, ServeKey, ServeNonce).out
    IN sealed \cup {FlipByte(whole, Len(whole), 1)}

ServedStores ==
    UNION {[S -> {[value |-> b, created_at |-> 0, updated_at |-> 0] : b \in ServeBlobs}] :
             S \in SUBSET ServeKeys}

\* Paths asked of /secrets/: each secret name, and no name at all.
SecretPaths == {PathSecretPrefix \o k : k \in ServeKeys \cup {<<>>}}

\* Paths no pattern matches: "/" and "/envs".
OtherPaths == {<<47>>, <<47, 101, 110, 118, 115>>}

InitServe ==
    /\ config = SetConfig(EmptyMap, EncryptionKeyName, HexEncode(ServeKey))
    /\ secrets \in ServedStores
    /\ now = 0
    /\ server = [up |-> FALSE, encKey |-> <<>>]
    /\ result = NoResult
    /\ written = EmptyMap
    /\ RestInit
    /\ inPlain = <<>>
    /\ inKey = <<>>
    /\ calls = <<>>
    /\ dec = NoDec

\* The goroutine that handles the requests for /env.
EnvGoroutine == 1

\* A command or a request starts when the one before it has ended.
NextServe ==
    \/ /\ Quiet
       /\ \/ serveCmd
          \/ \E method \in Methods : healthHandler(method)
          \/ \E method \in Methods : secretsHandler(method)
          \/ acceptRequest(EnvGoroutine, PathEnv)
          \/ \E method \in Methods, path \in SecretPaths : secretHandler(method, path)
          \/ \E method \in Methods, path \in OtherPaths : notFoundHandler(method, path)
          \/ envCmd
          \/ \E key \in ServeKeys : deleteCmd(key)
    \/ serveListen
    \/ deleteRow
    \/ handlerStep(EnvGoroutine)
    \/ deliverResponse(EnvGoroutine)
    \/ envList
    \/ envRead

SpecServe == InitServe /\ [][NextServe]_vars

(***************************************************************************)
(* Remote commands against a running server, with local delete as the      *)
(* writer that may come between two requests.                              *)
(***************************************************************************)
InitRemote ==
    /\ config = SetConfig(EmptyMap, EncryptionKeyName, HexEncode(ServeKey))
    /\ secrets \in ServedStores
    /\ now = 0
    /\ server = [up |-> TRUE, encKey |-> ServeKey]
    /\ result = [Exited("serve", <<>>, 0, "Listening", <<>>, "") EXCEPT !.running = TRUE]
    /\ written = EmptyMap
    /\ RestInit
    /\ inPlain = <<>>
    /\ inKey = <<>>
    /\ calls = <<>>
    /\ dec = NoDec

NextRemote ==
    \/ remoteRunList
    \/ remoteRunFetch
    \/ remoteRunWait
    \/ remoteEnvSend
    \/ \E g \in Goroutines : handlerStep(g)
    \/ remoteEnvReceive
    \/ \E key \in ServeKeys : deleteCmd(key)
    \/ deleteRow

SpecRemote == InitRemote /\ [][NextRemote]_vars

(***************************************************************************)
(* env, run and the handler of /env beside a writer.  Each command is a    *)
(* process of its own on the store file and nothing (no transaction, no    *)
(* lock) ties its list of the names to its reads, so a delete of another   *)
(* process may come between any two of the statements of a reader.  One    *)
(* reader is underway at a time.                                           *)
(***************************************************************************)
NextBeside ==
    \/ /\ Quiet
       /\ \/ envCmd
          \/ runCmd
          \/ serveCmd
          \/ acceptRequest(EnvGoroutine, PathEnv)
    \/ serveListen
    \/ envList
    \/ runList
    \/ envRead
    \/ runRead
    \/ runExec
    \/ runWait
    \/ handlerStep(EnvGoroutine)
    \/ deliverResponse(EnvGoroutine)
    \/ \E key \in ServeKeys : deleteCmd(key)
    \/ deleteRow

SpecBeside == InitServe /\ [][NextBeside]_vars

(***************************************************************************)
(* Requests of every kind handled at the same time by the goroutines of    *)
(* one server.                                                             *)
(***************************************************************************)
RequestPaths == {PathHealth, PathSecrets, PathEnv} \cup SecretPaths \cup OtherPaths

NextConc ==
    \/ \E g \in Goroutines, path \in RequestPaths : acceptRequest(g, path)
    \/ \E g \in Goroutines : handlerStep(g)
    \/ \E g \in Goroutines : deliverResponse(g)

\* The scheduler of Go runs every goroutine that can run, and no handler
\* waits for another: a handler that can take its step takes it.  This is
\* WF_vars(handlerStep(g)) with ENABLED written out: the step is enabled
\* exactly while the handler stands before a read of the store.
FairHandlers ==
    \A g \in Goroutines :
       \/ []<>(inflight[g].pc \notin {"routed", "exporting"})
       \/ []<><<handlerStep(g)>>_vars

\* A server that listens, any of the stores, no command that writes.
SpecConc == InitRemote /\ [][NextConc]_vars /\ FairHandlers

(***************************************************************************)
(* Two init processes on one fresh store file, each run once.  Nothing (no *)
(* transaction, no lock) ties the read of the key entry to its write, so   *)
(* the steps of the two interleave, and the other commands, each a process *)
(* of its own that reads the key first, run beside them on one secret.     *)
(***************************************************************************)
NextInits ==
    \/ \E p \in InitProcs : inits[p].pc = "idle" /\ initCmd(p)
    \/ \E p \in InitProcs : initGenerate(p)
    \/ \E p \in InitProcs : initWrite(p)
    \/ \E value \in Values \ {<<>>} : setCmd(<<97>>, value)
    \/ setWrite
    \/ getCmd(<<97>>)
    \/ getRead
    \/ deleteCmd(<<97>>)
    \/ deleteRow
    \/ listCmd
    \/ listPrint
    \/ envCmd
    \/ envList
    \/ envRead
    \/ runCmd
    \/ runList
    \/ runRead
    \/ runExec
    \/ runWait
    \/ serveCmd
    \/ serveListen

\* Two init processes and the other commands on a fresh store.
SpecInits == Init /\ [][NextInits]_vars

(***************************************************************************)
(* run --remote while set and delete run on the file the server serves.    *)
(* The fetch is one request for the list and one for each key; a command   *)
(* that writes can run between any two of them.  instants collects the     *)
(* plaintext mappings the store went through from the list request on.     *)
(***************************************************************************)
\* The secret names of the served file: "a", "b" and "a?<", whose request
\* path the server sees as that of "a".
SnapKeys == {<<97>>, <<98>>, <<97, 63, 60>>}

\* The secrets that set and delete are run on beside the fetch, and the
\* value that set is given: "$a".
WriterKeys == {<<97>>, <<98>>}

WriterValues == {<<36, 97>>}

\* How many different mappings the store goes through during one fetch.
MaxInstants == 3

\* The rows of a store that holds the plaintexts of m under the server's key.
SealedStore(m) ==
    [k \in DOMAIN m |->
        [value |-> Encrypt(m[k], ServeKey, ServeNonce).out,
         created_at |-> 0, updated_at |-> 0]]

SnapMaps == UNION {[S -> ServeValues] : S \in SUBSET SnapKeys}

InitSnap ==
    /\ config = SetConfig(EmptyMap, EncryptionKeyName, HexEncode(ServeKey))
    /\ \E m \in SnapMaps : written = m /\ secrets = SealedStore(m)
    /\ now = 0
    /\ server = [up |-> TRUE, encKey |-> ServeKey]
    /\ result = NoResult
    /\ RestInit
    /\ inPlain = <<>>
    /\ inKey = <<>>
    /\ calls = <<>>
    /\ dec = NoDec

NextSnap ==
    \/ remoteRunList
    \/ remoteRunFetch
    \/ remoteRunWait
    \/ /\ remote.pc \in {"fetching", "running"}
       /\ Cardinality(instants) < MaxInstants
       /\ \E key \in WriterKeys, value \in WriterValues : setCmd(key, value)
    \/ setWrite
    \/ /\ remote.pc \in {"fetching", "running"}
       /\ Cardinality(instants) < MaxInstants
       /\ \E key \in WriterKeys : deleteCmd(key)
    \/ deleteRow

SpecSnap == InitSnap /\ [][NextSnap]_vars

(***************************************************************************)
(* The two tables and the clock.  A secret may have any name, the name of  *)
(* the key entry included; the secrets of the file may be older than its   *)
(* key entry; CURRENT_TIMESTAMP moves on between commands.                 *)
(***************************************************************************)
TableKeys == {EncryptionKeyName, <<97>>}

\* The last value of the clock.
MaxTime == 2

\* A second passes.
Tick ==
    /\ now < MaxTime
    /\ now' = now + 1
    /\ UNCHANGED <<config, secrets, server, result, written>>
    /\ UNCHANGED <<cryptoVars, escVars, remoteVars, procVars, instants>>

InitTables ==
    /\ config = EmptyMap
    /\ secrets \in StoredSecrets
    /\ now = 0
    /\ server = [up |-> FALSE, encKey |-> <<>>]
    /\ result = NoResult
    /\ written = EmptyMap
    /\ RestInit
    /\ inPlain = <<>>
    /\ inKey = <<>>
    /\ calls = <<>>
    /\ dec = NoDec

NextTables ==
    \/ Tick
    \/ /\ Quiet
       /\ \/ \E p \in OneInit : initCmd(p)
          \/ \E key \in TableKeys, value \in Values : setCmd(key, value)
          \/ \E key \in TableKeys : deleteCmd(key)
    \/ \E p \in InitProcs : initGenerate(p)
    \/ \E p \in InitProcs : initWrite(p)
    \/ setWrite
    \/ deleteRow

SpecTables == InitTables /\ [][NextTables]_vars

(***************************************************************************)
(* run on a store whose secret names are what set accepts: any string, one *)
(* with a '=' in it included.  The names are a, a=b and B; the environment *)
(* of run holds a variable named a.                                        *)
(***************************************************************************)
RunKeys == {<<97>>, <<97, 61, 98>>, <<66>>}

\* The stores with some of the names, each holding one of the blobs.
RunStores ==
    UNION {[S -> {[value |-> b, created_at |-> 0, updated_at |-> 0] : b \in ServeBlobs}] :
              S \in SUBSET RunKeys}

InitRun ==
    /\ config = SetConfig(EmptyMap, EncryptionKeyName, HexEncode(ServeKey))
    /\ secrets \in RunStores
    /\ now = 0
    /\ server = [up |-> FALSE, encKey |-> <<>>]
    /\ result = NoResult
    /\ written = EmptyMap
    /\ RestInit
    /\ inPlain = <<>>
    /\ inKey = <<>>
    /\ calls = <<>>
    /\ dec = NoDec

NextRun == runCmd \/ runList \/ runRead \/ runExec \/ runWait

SpecRun == InitRun /\ [][NextRun]_vars

(***************************************************************************)
(* The export escaping on its own, applied to plaintexts drawn from a      *)
(* bounded set                                                             *)
(***************************************************************************)
\* Bytes of the plaintexts: backslash, double quote, dollar, backtick, 'a'
\* and newline.
EscBytes == {92, 34, 36, 96, 97, 10}

EscPlaintexts == SeqsUpTo(EscBytes, MaxEscLen)

escapeCall ==
    /\ ~esc.done
    /\ esc' = [plain |-> esc.plain, escaped |-> escapedValue(esc.plain), done |-> TRUE]
    /\ UNCHANGED storeVars
    /\ UNCHANGED cryptoVars
    /\ UNCHANGED <<remoteVars, procVars, instants>>

InitEscape ==
    /\ StoreInit
    /\ esc \in {[plain |-> p, escaped |-> <<>>, done |-> FALSE] : p \in EscPlaintexts}
    /\ response = NoResponse
    /\ remote = NoRemote
    /\ inflight = NoInflight
    /\ inits = NoInits
    /\ local = NoLocal
    /\ setter = NoSetter
    /\ deleter = NoDeleter
    /\ instants = {}
    /\ inPlain = <<>>
    /\ inKey = <<>>
    /\ calls = <<>>
    /\ dec = NoDec

NextEscape == escapeCall

SpecEscape == InitEscape /\ [][NextEscape]_vars

(***************************************************************************)
(* Properties                                                              *)
(***************************************************************************)
\* The commands that need the key of the store.
KeyedCommands == {"set", "get", "delete", "list", "env", "run", "serve"}

\* Ascending lexical order of byte strings, stated on positions: a is a
\* proper prefix of b, or they first differ where a has the smaller byte.
LexBefore(a, b) ==
    \E i \in 1..(Len(b)) :
       /\ \A j \in 1..(i - 1) : j <= Len(a) /\ a[j] = b[j]
       /\ \/ i = Len(a) + 1
          \/ i <= Len(a) /\ a[i] < b[i]

\* b is a with exactly one byte changed, at a position after the nonce.
SingleFlipAfterNonce(a, b) ==
    /\ Len(a) = Len(b)
    /\ \E pos \in (NonceSize + 1)..Len(a) :
          /\ a[pos] # b[pos]
          /\ \A q \in (1..Len(a)) \ {pos} : a[q] = b[q]

\* C1: once the config entry encryption_key exists, no command changes the
\* config mapping; an init run on an initialized store prints "already
\* initialized", exits 0 and leaves the secrets mapping as it was.
C1_KeyNeverChanges ==
    [][Initialized =>
          /\ config' = config
          /\ (result'.cmd = "init" =>
                 /\ result'.msg = "AlreadyInitialized"
                 /\ result'.exitCode = 0
                 /\ result'.stderr = ""
                 /\ secrets' = secrets)]_vars

\* C1 witness: init was run on a store that already held a key and secrets.
C1_Witness ==
    /\ Initialized
    /\ result.cmd = "init"
    /\ ~result.running
    /\ result.msg = "AlreadyInitialized"
    /\ DOMAIN secrets # {}

\* C2: on an initialized store the secrets behave as the plain map from key
\* to last written value: a key is stored exactly when its last set was not
\* followed by a delete, its blob decrypts to the value of that set, and get
\* prints exactly that value, or fails with "not found" when there is none.
C2_GetReturnsLastWritten ==
    Initialized =>
       LET sk == getStoreAndKey(config)
       IN /\ DOMAIN secrets = DOMAIN written
          /\ \A k \in DOMAIN secrets :
                Decrypt(secrets[k].value, sk.key) = [err |-> "", out |-> written[k]]
          /\ (result.cmd = "get" /\ ~result.running =>
                 IF result.key \in DOMAIN written
                 THEN /\ result.exitCode = 0
                      /\ result.stdout = written[result.key]
                      /\ result.stderr = ""
                 ELSE /\ result.exitCode # 0
                      /\ result.stdout = <<>>
                      /\ result.stderr = "NotFound")

\* C2 witness: get printed a non-empty value while another key is absent.
C2_Witness ==
    /\ result.cmd = "get"
    /\ ~result.running
    /\ result.exitCode = 0
    /\ Len(result.stdout) > 0
    /\ result.stdout = written[result.key]
    /\ DOMAIN secrets # SecretKeys

\* C3: on an initialized store, delete of a key that is not in the secrets
\* mapping fails with NotFound and a non-zero exit and changes neither
\* mapping; delete of a present key succeeds and removes just that key, and a
\* get of that key run next finds the key absent and fails with NotFound.
C3_DeleteContract ==
    [][/\ (Initialized /\ result'.cmd = "delete" /\ ~result'.running =>
              IF result'.key \notin DOMAIN secrets
              THEN /\ result'.exitCode # 0
                   /\ result'.stderr = "NotFound"
                   /\ secrets' = secrets
                   /\ config' = config
              ELSE /\ result'.exitCode = 0
                   /\ result'.stderr = ""
                   /\ DOMAIN secrets' = (DOMAIN secrets) \ {result'.key}
                   /\ \A k \in DOMAIN secrets' : secrets'[k] = secrets[k]
                   /\ GetSecret(secrets', result'.key).err = "NotFound"
                   /\ config' = config)
       /\ (/\ result.cmd = "delete"
           /\ ~result.running
           /\ result.exitCode = 0
           /\ result'.cmd = "get"
           /\ result'.key = result.key
           => /\ result'.running
              /\ local'.key = result.key
              /\ result.key \notin DOMAIN secrets')
       /\ (/\ result.cmd = "get"
           /\ result.running
           /\ result' # result
           /\ result.key \notin DOMAIN secrets
           => /\ result'.cmd = "get"
              /\ result'.key = result.key
              /\ ~result'.running
              /\ result'.exitCode # 0
              /\ result'.stderr = "NotFound")]_vars

\* C3 witness: a delete of an absent key failed on a store that holds others.
C3_Witness ==
    /\ result.cmd = "delete"
    /\ ~result.running
    /\ result.stderr = "NotFound"
    /\ result.exitCode # 0
    /\ result.key \notin DOMAIN secrets
    /\ DOMAIN secrets # {}

\* C4: List returns exactly the keys present in the secrets mapping, each
\* once, in ascending lexical order; on an empty mapping it returns the empty
\* sequence; the list command prints that sequence.
C4_ListSorted ==
    LET keys == ListSecrets(secrets)
    IN /\ {keys[i] : i \in 1..Len(keys)} = DOMAIN secrets
       /\ Len(keys) = Cardinality(DOMAIN secrets)
       /\ \A i \in 1..(Len(keys) - 1) : LexBefore(keys[i], keys[i + 1])
       /\ (DOMAIN secrets = {} => keys = <<>>)
       /\ (Initialized /\ result.cmd = "list" /\ ~result.running =>
              /\ result.exitCode = 0
              /\ result.stderr = ""
              /\ result.stdout = IF Len(keys) = 0 THEN <<>> ELSE JoinLines(keys) \o <<10>>)

\* C4 witness: list printed all three keys.
C4_Witness ==
    /\ result.cmd = "list"
    /\ ~result.running
    /\ result.exitCode = 0
    /\ DOMAIN secrets = SecretKeys
    /\ result.stdout = <<97, 10, 97, 98, 10, 98, 10>>

\* C5: Decrypt of a blob that Encrypt returned, under the key given to
\* Encrypt, succeeds and returns the plaintext given to Encrypt; with a
\* 32-byte key every Encrypt call succeeds.
C5_RoundTrip ==
    \A i \in 1..Len(calls) :
       /\ (Len(inKey) = KeySize => calls[i].err = "")
       /\ (calls[i].err = "" /\ dec.err # "none"
             /\ dec.blob = calls[i].out /\ dec.key = inKey
           => dec.err = "" /\ dec.out = inPlain)

\* C5 witness: a non-empty plaintext came back from Decrypt.
C5_Witness ==
    /\ Len(calls) > 0
    /\ dec.blob = calls[Len(calls)].out
    /\ dec.key = inKey
    /\ dec.err = ""
    /\ Len(inPlain) > 0
    /\ dec.out = inPlain

\* C6: for a blob B that Encrypt returned under key K, Decrypt fails with
\* AuthenticationFailure and returns no plaintext when given B with one byte
\* after the nonce changed, and when given B with another 32-byte key.
C6_TamperAndWrongKeyFail ==
    \A i \in 1..Len(calls) :
       calls[i].err = "" /\ dec.err # "none" =>
          /\ (dec.key = inKey /\ SingleFlipAfterNonce(calls[i].out, dec.blob)
              => dec.err = "AuthenticationFailure" /\ dec.out = <<>>)
          /\ (Len(dec.key) = KeySize /\ dec.key # inKey /\ dec.blob = calls[i].out
              => dec.err = "AuthenticationFailure" /\ dec.out = <<>>)

\* C6 witness: Decrypt rejected a blob whose first ciphertext byte was changed.
C6_Witness ==
    /\ Len(calls) > 0
    /\ calls[Len(calls)].err = ""
    /\ Len(inPlain) > 0
    /\ dec.key = inKey
    /\ SingleFlipAfterNonce(calls[Len(calls)].out, dec.blob)
    /\ dec.blob[NonceSize + 1] # calls[Len(calls)].out[NonceSize + 1]
    /\ dec.err = "AuthenticationFailure"

\* C7: Encrypt and Decrypt fail with InvalidKeySize and return nothing for
\* every key whose length is not 32, whatever the plaintext or blob.
C7_InvalidKeySize ==
    /\ \A i \in 1..Len(calls) :
          Len(inKey) # KeySize =>
             calls[i].err = "InvalidKeySize" /\ calls[i].out = <<>>
    /\ (dec.err # "none" /\ Len(dec.key) # KeySize =>
           dec.err = "InvalidKeySize" /\ dec.out = <<>>)

\* C7 witness: a 33-byte key was refused by Encrypt and a 16-byte key by Decrypt.
C7_Witness ==
    /\ Len(inKey) = KeySize + 1
    /\ Len(calls) > 0
    /\ calls[1].err = "InvalidKeySize"
    /\ Len(dec.key) = 16
    /\ dec.err = "InvalidKeySize"

\* C8: with a 32-byte key Decrypt fails with MalformedCiphertext exactly for
\* the blobs shorter than 12 bytes; a blob of 12 bytes or more that does not
\* open fails with AuthenticationFailure.
C8_MalformedIffShort ==
    dec.err # "none" /\ Len(dec.key) = KeySize =>
       /\ (dec.err = "MalformedCiphertext" <=> Len(dec.blob) < NonceSize)
       /\ (Len(dec.blob) >= NonceSize /\ dec.err # "" => dec.err = "AuthenticationFailure")

\* C8 witness: an 11-byte prefix of a valid blob was refused as malformed.
C8_Witness ==
    /\ Len(calls) > 0
    /\ calls[Len(calls)].err = ""
    /\ Len(dec.key) = KeySize
    /\ dec.blob = SubSeq(calls[Len(calls)].out, 1, NonceSize - 1)
    /\ dec.err = "MalformedCiphertext"

\* C9 as claimed: no two Encrypt calls under the same key use the same nonce,
\* and encrypting the same plaintext twice yields two different blobs.
C9_NonceNeverReused ==
    \A i, j \in 1..Len(calls) :
       i < j /\ calls[i].err = "" /\ calls[j].err = "" =>
          /\ calls[i].nonce # calls[j].nonce
          /\ calls[i].out # calls[j].out

\* C9 amended: every Encrypt call puts the 12-byte nonce it drew at the front
\* of its blob; two calls with the same plaintext and key return different
\* blobs exactly when the random source gave them different nonces.
C9_NonceDecidesBlob ==
    \A i, j \in 1..Len(calls) :
       calls[i].err = "" /\ calls[j].err = "" =>
          /\ Len(calls[i].nonce) = NonceSize
          /\ SubSeq(calls[i].out, 1, NonceSize) = calls[i].nonce
          /\ (calls[i].nonce # calls[j].nonce <=> calls[i].out # calls[j].out)

\* C9 witness: two calls drew different nonces and returned different blobs.
C9_Witness ==
    /\ Len(calls) >= 2
    /\ calls[1].err = ""
    /\ calls[2].err = ""
    /\ calls[1].nonce # calls[2].nonce
    /\ calls[1].out # calls[2].out

\* C10: on a store without the encryption_key entry, set, get, delete, list,
\* env, run and serve each exit non-zero with the message to run init, start
\* neither a child nor the server, and change neither mapping.
C10_NotInitialized ==
    [][~Initialized /\ result'.cmd \in KeyedCommands =>
          /\ result'.exitCode # 0
          /\ result'.stderr = "NotInitialized"
          /\ result'.stdout = <<>>
          /\ ~result'.running
          /\ ~result'.spawned
          /\ secrets' = secrets
          /\ config' = config
          /\ server' = server]_vars

\* C10 witness: set failed on a store that was never initialized.
C10_Witness ==
    /\ ~Initialized
    /\ result.cmd = "set"
    /\ ~result.running
    /\ result.exitCode # 0
    /\ result.stderr = "NotInitialized"
    /\ secrets = EmptyMap

\* C11: whenever the value stored under encryption_key is not valid hex or
\* decodes to a byte string that is not 32 bytes long, every command that
\* obtains the key (delete and list included) fails with CorruptKey.
C11_CorruptKeyRejected ==
    LET stored == GetConfig(config, EncryptionKeyName)
        decoded == HexDecode(stored.out)
    IN /\ stored.err = ""
       /\ (decoded.err # "" \/ Len(decoded.out) # KeySize)
       /\ result.cmd \in KeyedCommands
       => /\ result.exitCode # 0
          /\ result.stderr = "CorruptKey"

\* The characters the export line escapes: backslash, double quote, dollar
\* sign, backtick.
ShellSpecials == {92, 34, 36, 96}

\* One scan from the left: a special character becomes a backslash and that
\* character, any other character is copied.
RECURSIVE ScanEscape(_)
ScanEscape(s) ==
    IF Len(s) = 0 THEN <<>>
    ELSE (IF s[1] \in ShellSpecials THEN <<92, s[1]>> ELSE <<s[1]>>) \o ScanEscape(Tail(s))

\* C12: the escaped value is the plaintext after one left-to-right scan in
\* which each backslash, double quote, dollar sign and backtick is replaced by
\* a backslash and that character and every other character is copied; no
\* inserted backslash is escaped again.
C12_EscapeIsOneScan ==
    esc.done =>
       /\ esc.escaped = ScanEscape(esc.plain)
       /\ Len(esc.escaped)
             = Len(esc.plain) + Cardinality({i \in 1..Len(esc.plain) : esc.plain[i] \in ShellSpecials})

\* C12 witness: a backslash followed by a dollar sign became four characters.
C12_Witness ==
    /\ esc.done
    /\ esc.plain = <<92, 36>>
    /\ esc.escaped = <<92, 92, 92, 36>>

\* Double-quote expansion of a POSIX shell: a backslash followed by a
\* backslash, double quote, dollar sign or backtick yields that character, a
\* backslash followed by a newline yields nothing, any other character
\* (a backslash before anything else too) stands for itself.
RECURSIVE ShellUnescape(_)
ShellUnescape(s) ==
    IF Len(s) = 0 THEN <<>>
    ELSE IF s[1] = 92 /\ Len(s) >= 2 /\ s[2] \in ShellSpecials
    THEN <<s[2]>> \o ShellUnescape(SubSeq(s, 3, Len(s)))
    ELSE IF s[1] = 92 /\ Len(s) >= 2 /\ s[2] = 10
    THEN ShellUnescape(SubSeq(s, 3, Len(s)))
    ELSE <<s[1]>> \o ShellUnescape(Tail(s))

\* No double quote, dollar sign or backtick of s from position i on stands
\* without a backslash before it, and no backslash is left dangling at the end.
RECURSIVE NoBareSpecial(_, _)
NoBareSpecial(s, i) ==
    IF i > Len(s) THEN TRUE
    ELSE IF s[i] = 92 THEN i < Len(s) /\ NoBareSpecial(s, i + 2)
    ELSE s[i] \notin {34, 36, 96} /\ NoBareSpecial(s, i + 1)

\* C13: for every plaintext without a newline, the double-quote expansion of
\* the escaped value is the plaintext, and the escaped value holds no double
\* quote, dollar sign or backtick without a backslash before it.
C13_EscapeRoundTrip ==
    esc.done /\ (\A i \in 1..Len(esc.plain) : esc.plain[i] # 10) =>
       /\ ShellUnescape(esc.escaped) = esc.plain
       /\ NoBareSpecial(esc.escaped, 1)

\* C13 witness: a plaintext of a backtick, a backslash and a double quote.
C13_Witness ==
    /\ esc.done
    /\ esc.plain = <<96, 92, 34>>
    /\ ShellUnescape(esc.escaped) = esc.plain
    /\ Len(esc.escaped) = 6

\* The keys of S in ascending lexical order.
RECURSIVE AscendingKeys(_)
AscendingKeys(S) ==
    IF S = {} THEN <<>>
    ELSE LET least == CHOOSE x \in S : \A y \in S \ {x} : LexBefore(x, y)
         IN <<least>> \o AscendingKeys(S \ {least})

\* The plaintext a blob of the served file was sealed from; Unsealed is
\* FALSE for a blob that is no sealed value.
Unsealed(blob) == \E v \in ServeValues : blob = Encrypt(v, ServeKey, ServeNonce).out

PlainOf(blob) == CHOOSE v \in ServeValues : blob = Encrypt(v, ServeKey, ServeNonce).out

\* One line export KEY="<escaped plaintext>" and a newline for each key of
\* keys, in that order.
RECURSIVE ExpectedExport(_, _)
ExpectedExport(keys, secs) ==
    IF Len(keys) = 0 THEN <<>>
    ELSE <<101, 120, 112, 111, 114, 116, 32>> \o keys[1] \o <<61, 34>>
         \o ScanEscape(PlainOf(secs[keys[1]].value)) \o <<34, 10>>
         \o ExpectedExport(Tail(keys), secs)

\* C14: when every secret decrypts, the output of env and the body of the
\* server's /env are exactly one line export KEY="<escaped plaintext>" with
\* a newline per stored key, in ascending key order, and nothing else.
C14_ExportAllLines ==
    (\A k \in DOMAIN secrets : Unsealed(secrets[k].value)) =>
       /\ \A g \in Goroutines :
             inflight[g].pc = "done" /\ inflight[g].path = PathEnv =>
                /\ inflight[g].status = StatusOK
                /\ inflight[g].body = ExpectedExport(AscendingKeys(DOMAIN secrets), secrets)
                /\ inflight[g].msg = ""
       /\ (result.cmd = "env" /\ ~result.running =>
              /\ result.start = secrets
              /\ result.exitCode = 0
              /\ result.stdout = ExpectedExport(AscendingKeys(DOMAIN secrets), secrets)
              /\ result.stderr = "")

\* C14 witness: env and /env gave the same three lines, one with an escaped
\* dollar sign.
C14_Witness ==
    /\ DOMAIN secrets = ServeKeys
    /\ \A k \in ServeKeys : Unsealed(secrets[k].value)
    /\ PlainOf(secrets[<<97, 63, 60>>].value) = <<36, 97>>
    /\ inflight[EnvGoroutine].pc = "done"
    /\ inflight[EnvGoroutine].path = PathEnv
    /\ inflight[EnvGoroutine].status = StatusOK
    /\ result.cmd = "env"
    /\ ~result.running
    /\ result.stdout = inflight[EnvGoroutine].body
    /\ Len(result.stdout) > 3 * 11

\* C15: the server's get-one answers 400 when no key follows /secrets/, 404
\* when the key is not in the store, 500 with a message when the stored blob
\* does not decrypt, and otherwise 200 with the plaintext as the body.
C15_GetOneStatus ==
    [][response' # response /\ HasPrefixAt(response'.path, 1, PathSecretPrefix) =>
          LET key == SubSeq(response'.path, Len(PathSecretPrefix) + 1, Len(response'.path))
          IN IF Len(key) = 0
             THEN response'.status = StatusBadRequest /\ response'.msg # ""
             ELSE IF key \notin DOMAIN secrets
             THEN response'.status = StatusNotFound
             ELSE IF ~Unsealed(secrets[key].value)
             THEN response'.status = StatusInternalServerError /\ response'.msg # ""
             ELSE /\ response'.status = StatusOK
                  /\ response'.body = PlainOf(secrets[key].value)
                  /\ response'.msg = ""]_vars

\* C15 witness: a damaged blob was answered with 500 and a message while
\* another key of the store decrypts.
C15_Witness ==
    /\ response.path = PathSecretPrefix \o <<98>>
    /\ <<98>> \in DOMAIN secrets
    /\ ~Unsealed(secrets[<<98>>].value)
    /\ response.status = StatusInternalServerError
    /\ response.msg = "DecryptFailed"
    /\ <<97>> \in DOMAIN secrets
    /\ Unsealed(secrets[<<97>>].value)

\* C16: for every store content, the empty store included, the body of the
\* server's list-keys response is a JSON array of strings holding all secret
\* keys in ascending order.
C16_ListIsJsonArray ==
    [][response' # response /\ response'.path = PathSecrets =>
          /\ response'.status = StatusOK
          /\ Len(response'.body) >= 2
          /\ response'.body[1] = 91
          /\ JsonDecodeKeys(response'.body)
                = [err |-> "", keys |-> AscendingKeys(DOMAIN secrets')]]_vars

\* C17: when a secret of the store does not decrypt, be it the first key in
\* order or a later one, the server's export-all response has status 500 and
\* a message body.
C17_ExportAllError500 ==
    \A g \in Goroutines :
       /\ inflight[g].pc = "done"
       /\ inflight[g].path = PathEnv
       /\ \E k \in DOMAIN secrets : ~Unsealed(secrets[k].value)
       => /\ inflight[g].status = StatusInternalServerError
          /\ inflight[g].msg # ""

\* C20: the server never writes: a step in which the server answers a
\* request, whatever its method and path, leaves the secrets and the config
\* mapping as they were.
C20_ServerNeverWrites ==
    [][response' # response \/ inflight' # inflight
          => secrets' = secrets /\ config' = config]_vars

\* C20 witness: a request for a stored secret was answered and the store
\* still holds every key.
C20_Witness ==
    /\ response.path = PathSecretPrefix \o <<97>>
    /\ response.status = StatusOK
    /\ response.body = <<36, 97>>
    /\ DOMAIN secrets = ServeKeys

\* C18: with no writer between its requests and no failure of the
\* transport, the key-to-plaintext mapping that run --remote builds from the
\* key list and the values equals the mapping local mode builds from the
\* same store, whatever the key strings and values: same keys, same value for
\* every key (and when local mode fails on a secret, so does the remote).
C18_RemoteEqualsLocal ==
    /\ remote.cmd = "run"
    /\ remote.pc \in {"running", "done"}
    /\ remote.transport = "ok"
    /\ secrets = remote.start
    => LET here == ResolveAll(ListSecrets(secrets), secrets, getStoreAndKey(config).key)
       IN IF here.err = ""
          THEN /\ remote.failed = 0
               /\ DOMAIN remote.secrets = DOMAIN here.secrets
               /\ \A k \in DOMAIN here.secrets : remote.secrets[k] = here.secrets[k]
          ELSE remote.failed # 0 /\ remote.exitCode # 0

\* C19: when a request of a remote command gets a status other than 200 or
\* fails in transport, the command stops at once: that request is the last
\* one sent, no mapping and no output is given, the exit code is not zero and
\* no child is started.
C19_RemoteFailsHard ==
    remote.failed # 0 =>
       /\ remote.pc = "done"
       /\ Len(remote.sent) = remote.failed
       /\ remote.secrets = EmptyMap
       /\ remote.stdout = <<>>
       /\ remote.exitCode # 0
       /\ ~remote.spawned

(***************************************************************************)
(* The child of run                                                        *)
(***************************************************************************)
\* The names that can name a variable of an environment: no '=' in them.
EnvNames(S) == {N \in S : \A i \in 1..Len(N) : N[i] # 61}

\* The child finds every secret under its name with its plaintext, and every
\* variable of the parent that no secret is named after with its value.
ChildEnvIsParentPlusSecrets ==
    /\ \A N \in DOMAIN secrets :
          /\ N \in DOMAIN result.childEnv
          /\ result.childEnv[N] = PlainOf(secrets[N].value)
    /\ \A i \in 1..Len(result.environ) :
          EnvName(result.environ[i]) \notin DOMAIN secrets
             => /\ EnvName(result.environ[i]) \in DOMAIN result.childEnv
                /\ result.childEnv[EnvName(result.environ[i])]
                      = EnvValue(result.environ[i])

\* C21 as stated: the environment of the child of run is the environment of
\* the parent plus the secrets, for every secret name: each secret name is
\* bound to the plaintext of the secret, also when the parent defines the
\* name, and every other variable of the parent is passed unchanged.
C21_ChildEnvAnyName ==
    (result.cmd = "run" /\ result.spawned) => ChildEnvIsParentPlusSecrets

\* C21 amended: the same, for stores in which no secret name holds a '='.
C21_ChildEnvValidNames ==
    (/\ result.cmd = "run"
     /\ result.spawned
     /\ EnvNames(DOMAIN secrets) = DOMAIN secrets) => ChildEnvIsParentPlusSecrets

\* A child was started with a secret named a while the parent defined a
\* and P: it finds the plaintext under a and the parent's value under P.
C21_Witness ==
    /\ result.cmd = "run"
    /\ result.spawned
    /\ DOMAIN secrets = {<<97>>, <<66>>}
    /\ Len(result.environ) = 2
    /\ result.childEnv[<<97>>] = <<36, 97>>
    /\ result.childEnv[<<80>>] = <<113>>

\* C22: run starts one child and waits for it: it has not ended while the
\* child runs; it exits with the exit code of the child, 0 or not (and
\* non-zero after a child that a signal ended); when the child cannot be
\* started it prints an error and exits non-zero, which a propagated exit of
\* a child never comes with.
C22_ExitCodePropagated ==
    /\ (local.pc = "waiting" => result.cmd = "run" /\ result.running /\ result.spawned)
    /\ (result.cmd = "run" /\ ~result.running =>
          /\ result.spawned =>
                /\ result.childCode \in ChildExitCodes => result.exitCode = result.childCode
                /\ result.childCode = Signaled => result.exitCode # 0
                /\ result.stderr = ""
          /\ result.stderr = "ExecFailed" => (result.exitCode # 0 /\ ~result.spawned)
          /\ ~result.spawned => (result.exitCode # 0 /\ result.stderr # ""))

\* A child ended with 3 and run exited with 3; the failure to start a child
\* is the other witness, it is reached by the same action.
C22_Witness ==
    /\ result.cmd = "run"
    /\ ~result.running
    /\ result.spawned
    /\ result.childCode = 3
    /\ result.exitCode = 3

(***************************************************************************)
(* Requests served at the same time                                        *)
(***************************************************************************)
\* C23: with no command writing, under every interleaving of the handlers
\* of requests served at the same time, each request gets the response it
\* would get served alone against the same store, and each request that was
\* accepted gets its response in the end.
C23_ServedAsIfAlone ==
    /\ [](\A g \in Goroutines :
            inflight[g].pc = "done" =>
               Resp(inflight[g].status, inflight[g].body, inflight[g].msg)
                  = Route(inflight[g].path, secrets, server.encKey))
    /\ \A g \in Goroutines :
          (inflight[g].pc # "idle") ~> (inflight[g].pc = "done")

\* Two requests for /env on a store with two secrets: one has its response
\* while the other stands after its first line.
C23_Witness ==
    /\ Cardinality(DOMAIN secrets) = 2
    /\ inflight[1].pc = "done"
    /\ inflight[1].path = PathEnv
    /\ Len(inflight[1].body) > 0
    /\ inflight[2].pc = "exporting"
    /\ inflight[2].next = 2

(***************************************************************************)
(* env that fails part way                                                 *)
(***************************************************************************)
\* C24: when env cannot read or decrypt the k-th key in ascending order, it
\* has written the export lines of exactly the first k-1 keys to stdout, in
\* order and unchanged, no line for the k-th or a later key, and it exits
\* non-zero with an error on stderr; the k-th key is one that was deleted
\* after env listed the keys or one whose blob does not decrypt, and env
\* ends without an error only when there is no such key.
C24_PartialExport ==
    result.cmd = "env" /\ ~result.running =>
       LET keys == result.keys
           k == result.failed
       IN /\ keys = AscendingKeys(DOMAIN result.start)
          /\ IF k = 0
             THEN /\ result.exitCode = 0
                  /\ result.stderr = ""
                  /\ \A i \in 1..Len(keys) : Unsealed(result.start[keys[i]].value)
                  /\ result.stdout = ExpectedExport(keys, result.start)
             ELSE /\ \A i \in 1..(k - 1) : Unsealed(result.start[keys[i]].value)
                  /\ result.stdout = ExpectedExport(SubSeq(keys, 1, k - 1), result.start)
                  /\ result.exitCode # 0
                  /\ result.stderr \in {"GetFailed", "DecryptFailed"}
                  /\ (result.stderr = "GetFailed" => keys[k] \notin DOMAIN secrets)
                  /\ (result.stderr = "DecryptFailed"
                         => ~Unsealed(result.start[keys[k]].value))

\* env listed three secrets, wrote the line of the first, and failed on the
\* second, which another process had deleted meanwhile; the third is still
\* stored and decrypts.
C24_Witness ==
    /\ result.cmd = "env"
    /\ ~result.running
    /\ Len(result.keys) = 3
    /\ result.failed = 2
    /\ result.stderr = "GetFailed"
    /\ result.exitCode = 1
    /\ result.stdout = ExpectedExport(<<(<<97>>)>>, result.start)
    /\ Len(result.stdout) > 0
    /\ result.keys[3] \in DOMAIN secrets
    /\ Unsealed(secrets[result.keys[3]].value)

(***************************************************************************)
(* Two init at the same time                                               *)
(***************************************************************************)
\* The init processes that wrote the key entry.
KeyWriters == {p \in InitProcs : inits[p].msg = "Initialized"}

\* C25: under every interleaving of the steps of two init on one fresh
\* store, the key entry is written at most once, so that the key of an init
\* that reported success is the key the store holds.
C25_KeyWrittenOnce ==
    /\ Cardinality(KeyWriters) <= 1
    /\ \A p \in KeyWriters : config[EncryptionKeyName] = HexEncode(inits[p].key)

(***************************************************************************)
(* A fetch beside commands that write                                      *)
(***************************************************************************)
\* A fetch of run --remote gave its mapping.
FetchSucceeded ==
    remote.cmd = "run" /\ remote.pc \in {"running", "done"} /\ remote.failed = 0

CarriedUnchanged(key) ==
    RequestPath(PathSecretPrefix \o key) = PathSecretPrefix \o key

C27_RemoteEnvPrintsLocalEnv ==
    (/\ remote.cmd = "env"
     /\ remote.pc = "done"
     /\ remote.transport = "ok"
     /\ secrets = remote.start) =>
        /\ remote.stdout = ExportAll(ListSecrets(secrets), secrets, server.encKey).out
        /\ remote.msg = ""

(***************************************************************************)
(* The length of a blob                                                    *)
(***************************************************************************)
\* C28: every blob that Encrypt returned and set stored is as long as its
\* plaintext plus 12 plus 16 bytes and begins with the 12 bytes of the
\* nonce; the blob of an empty plaintext has 28 bytes and no stored blob
\* has fewer.
C28_BlobLength ==
    \A k \in DOMAIN secrets :
       LET blob == secrets[k].value
       IN /\ Len(blob) = Len(written[k]) + NonceSize + TagSize
          /\ Len(blob) = Len(written[k]) + 12 + 16
          /\ SubSeq(blob, 1, 12) \in Nonces
          /\ Len(blob) >= 28
          /\ (written[k] = <<>> => Len(blob) = 28)

\* set stored an empty and a one-byte plaintext: blobs of 28 and 29 bytes.
C28_Witness ==
    /\ result.cmd = "set"
    /\ ~result.running
    /\ \E k \in DOMAIN secrets : written[k] = <<>> /\ Len(secrets[k].value) = 28
    /\ \E k \in DOMAIN secrets : Len(written[k]) = 1 /\ Len(secrets[k].value) = 29

(***************************************************************************)
(* The two tables and the timestamps                                       *)
(***************************************************************************)
\* C29: config and secrets are namespaces of their own.  A step that
\* changes a secret (SetSecret, DeleteSecret), also one named
\* encryption_key, leaves every config entry unchanged; a step that changes
\* a config entry (SetConfig) leaves every secret unchanged; SetSecret(k)
\* and DeleteSecret(k) leave the blob of every other secret unchanged.
C29_TablesDisjoint ==
    [][/\ (secrets' # secrets => config' = config)
       /\ (config' # config => secrets' = secrets)
       /\ \A k \in (DOMAIN secrets) \cup (DOMAIN secrets') :
             k # result'.key =>
                /\ k \in DOMAIN secrets
                /\ k \in DOMAIN secrets'
                /\ secrets'[k].value = secrets[k].value]_vars

\* A secret named encryption_key is stored beside the key entry, and the
\* key entry is still the hex of a generated key.
C29_Witness ==
    /\ result.cmd = "set"
    /\ ~result.running
    /\ result.key = EncryptionKeyName
    /\ result.exitCode = 0
    /\ EncryptionKeyName \in DOMAIN secrets
    /\ <<97>> \in DOMAIN secrets
    /\ \E key \in GenKeys : config[EncryptionKeyName] = HexEncode(key)

\* C30: every row of secrets has its creation timestamp equal to its update
\* timestamp, and both are the time of the last SetSecret on its key: a set
\* puts both to the time it runs at, on a new key and on an existing one,
\* and no other step changes a row.
C30_TimestampsReset ==
    /\ [](\A k \in DOMAIN secrets : secrets[k].created_at = secrets[k].updated_at)
    /\ [][secrets' # secrets =>
             /\ result'.cmd \in {"set", "delete"}
             /\ result'.exitCode = 0
             /\ (result'.cmd = "set" =>
                   /\ secrets'[result'.key].created_at = now
                   /\ secrets'[result'.key].updated_at = now)
             /\ (result'.cmd = "delete" => result'.key \notin DOMAIN secrets')
             /\ \A k \in (DOMAIN secrets') \ {result'.key} :
                   k \in DOMAIN secrets /\ secrets'[k] = secrets[k]]_vars

\* Two secrets set at different times: the row set last carries the time 2
\* in both timestamps, the other the time 1.
C30_Witness ==
    /\ now = 2
    /\ result.cmd = "set"
    /\ ~result.running
    /\ result.key = <<97>>
    /\ DOMAIN secrets = TableKeys
    /\ secrets[<<97>>].created_at = 2
    /\ secrets[<<97>>].updated_at = 2
    /\ secrets[EncryptionKeyName].created_at = 1

====
